---- MODULE Spec2Model ----
(***************************************************************************)
(* APSG structural geology toolkit: the axial vector algebra of apsg.py    *)
(* (Vec3, Lin, Fol, Pole, Dataset) and the FeatureSet containers of        *)
(* apsg/feature/_container.py.                                             *)
(*                                                                         *)
(* Vectors are triples of integers.  The grid spacing is not smaller than  *)
(* the equality tolerance 1e-15, so "abs(d) < 1e-15" is "the squared       *)
(* length of d is below Tol2".  Rotations are taken about coordinate axes  *)
(* by multiples of 90 degrees, where cosd and sind are integers; angles    *)
(* are kept as the dot product and squared lengths that determine them.    *)
(***************************************************************************)
EXTENDS Integers, Sequences, FiniteSets, TLC

VARIABLES lhs, rhs, ds, fs, ret, hs, errstate

vars == <<lhs, rhs, ds, fs, ret, hs, errstate>>

(***************************************************************************)
(* Bounds of the model.                                                    *)
(***************************************************************************)
MaxCoord == 2
MaxLen == 2
NumDirs == 3

Coords == -MaxCoord..MaxCoord
Vecs == Coords \X Coords \X Coords
Zero3 == <<0, 0, 0>>

\* Directions the elements of a Dataset or FeatureSet are drawn from.
Dirs == << <<1, 0, 0>>, <<0, 1, 0>>, <<-1, 0, 0>>, <<0, 0, 1>>,
           <<0, -1, 0>>, <<0, 0, -1>> >>
SetVecs == {Dirs[i] : i \in 1..(IF NumDirs < Len(Dirs) THEN NumDirs ELSE Len(Dirs))}
Names == {"Default", "apsg"}
Phis == {0, 90, 180, 270, 360}

(***************************************************************************)
(* numpy arithmetic on 3-component arrays.                                 *)
(***************************************************************************)
Dot(u, v) == u[1] * v[1] + u[2] * v[2] + u[3] * v[3]
Neg3(u) == <<-u[1], -u[2], -u[3]>>
Add3(u, v) == <<u[1] + v[1], u[2] + v[2], u[3] + v[3]>>
Sub3(u, v) == <<u[1] - v[1], u[2] - v[2], u[3] - v[3]>>
Scale3(k, u) == <<k * u[1], k * u[2], k * u[3]>>
Cross3(u, v) == <<u[2] * v[3] - u[3] * v[2],
                  u[3] * v[1] - u[1] * v[3],
                  u[1] * v[2] - u[2] * v[1]>>
Norm2(u) == Dot(u, u)

\* An object of one of the array classes: its class and its components.
Obj(c, v) == [cls |-> c, v |-> v]
AxialClasses == {"Lin", "Fol", "Pole"}
Classes == {"Vec3"} \cup AxialClasses

\* ndarray.__neg__, __add__, __sub__: component-wise, the class of self kept.
nd_neg(a) == Obj(a.cls, Neg3(a.v))
nd_add(a, b) == Obj(a.cls, Add3(a.v, b.v))
nd_sub(a, b) == Obj(a.cls, Sub3(a.v, b.v))

\* cosd, sind at the multiples of 90 degrees.
cosd(phi) == CASE phi % 360 = 0 -> 1
               [] phi % 360 = 90 -> 0
               [] phi % 360 = 180 -> -1
               [] phi % 360 = 270 -> 0
sind(phi) == CASE phi % 360 = 0 -> 0
               [] phi % 360 = 90 -> 1
               [] phi % 360 = 180 -> 0
               [] phi % 360 = 270 -> -1

(***************************************************************************)
(* class Vec3                                                              *)
(***************************************************************************)
\* Squared tolerance of __eq__ in grid units: below it only the zero vector.
Tol2 == 1

Vec3_mul(a, b) == Dot(a.v, b.v)
\* abs(a) squared
Vec3_abs2(a) == Vec3_mul(a, a)

Vec3_eq_axial(a, b) ==
    Vec3_abs2(nd_sub(a, b)) < Tol2 \/ Vec3_abs2(nd_add(a, b)) < Tol2
Vec3_eq(a, b) == Vec3_abs2(nd_sub(a, b)) < Tol2

AxisAligned(v) == Cardinality({i \in 1..3 : v[i] # 0}) = 1
Abs(x) == IF x < 0 THEN -x ELSE x
Sgn(x) == IF x > 0 THEN 1 ELSE IF x < 0 THEN -1 ELSE 0
\* self/abs(self): exact for a vector along a coordinate axis.
Vec3_getuv(a) == Obj(a.cls, <<Sgn(a.v[1]), Sgn(a.v[2]), Sgn(a.v[3])>>)

aslin(a) == Obj("Lin", a.v)
asfol(a) == Obj("Fol", a.v)
aspole(a) == Obj("Pole", a.v)

Vec3_cross(a, b) == Obj("Vec3", Cross3(a.v, b.v))
Vec3_pow(a, b) == Obj("Vec3", Cross3(a.v, b.v))

\* the same with the sine taken without its sign
Vec3_rotate_unsigned(a, axis, phi) ==
    LET k == Vec3_getuv(axis)
    IN  Obj(a.cls,
            Add3(Add3(Scale3(cosd(phi), a.v),
                      Scale3(Abs(sind(phi)), Vec3_cross(k, a).v)),
                 Scale3((1 - cosd(phi)) * Vec3_mul(k, a), k.v)))
Vec3_rotate(a, axis, phi) ==
    LET k == Vec3_getuv(axis)
    IN  Obj(a.cls,
            Add3(Add3(Scale3(cosd(phi), a.v),
                      Scale3(sind(phi), Vec3_cross(k, a).v)),
                 Scale3((1 - cosd(phi)) * Vec3_mul(k, a), k.v)))

(***************************************************************************)
(* class Lin(Vec3)                                                         *)
(***************************************************************************)
Lin_add_plain(a, b) == nd_add(a, b)
\* the sum that turns "other" to the side of positive x, not to the side of a
Lin_add_hemisphere(a, b) ==
    LET other == IF b.v[1] < 0 THEN nd_neg(b) ELSE b
    IN  nd_add(a, other)
Lin_add(a, b) ==
    LET other == IF Vec3_mul(a, b) < 0 THEN nd_neg(b) ELSE b
    IN  nd_add(a, other)

\* The new contents of self, which += also returns.
Lin_iadd(a, b) ==
    LET other == IF Vec3_mul(a, b) < 0 THEN nd_neg(b) ELSE b
    IN  nd_add(a, other)

Lin_sub(a, b) ==
    LET other == IF Vec3_mul(a, b) < 0 THEN nd_neg(b) ELSE b
    IN  nd_sub(a, other)

Lin_isub(a, b) ==
    LET other == IF Vec3_mul(a, b) < 0 THEN nd_neg(b) ELSE b
    IN  nd_sub(a, other)

\* the sum in place of the cross product
Lin_pow_sum(a, b) == asfol(Obj("Vec3", Add3(a.v, b.v)))
Lin_pow(a, b) == asfol(Vec3_cross(a, b))

Lin_eq(a, b) ==
    Vec3_abs2(Lin_sub(a, b)) < Tol2 \/ Vec3_abs2(Lin_add(a, b)) < Tol2

\* "return Vec3(np.cross(self, other)).asfol": the bound method asfol of the
\* cross product is returned, the method is not called.
Lin_cross(a, b) == Obj("instancemethod asfol", Vec3_cross(a, b).v)

\* the same without the part of the vector along the axis
Lin_rotate_flat(a, axis, phi) ==
    aslin(Obj("Vec3", Add3(Scale3(cosd(phi), a.v),
                           Scale3(sind(phi), Cross3(Vec3_getuv(axis).v, a.v)))))
Lin_rotate(a, axis, phi) ==
    aslin(Vec3_rotate(Obj("Vec3", a.v), Obj("Vec3", axis.v), phi))

(***************************************************************************)
(* class Fol(Vec3), class Pole(Fol)                                        *)
(***************************************************************************)
Fol_add(a, b) ==
    LET other == IF Vec3_mul(a, b) < 0 THEN nd_neg(b) ELSE b
    IN  nd_add(a, other)

Fol_iadd(a, b) ==
    LET other == IF Vec3_mul(a, b) < 0 THEN nd_neg(b) ELSE b
    IN  nd_add(a, other)

Fol_sub(a, b) ==
    LET other == IF Vec3_mul(a, b) < 0 THEN nd_neg(b) ELSE b
    IN  nd_sub(a, other)

Fol_isub(a, b) ==
    LET other == IF Vec3_mul(a, b) < 0 THEN nd_neg(b) ELSE b
    IN  nd_sub(a, other)

Fol_pow(a, b) == aslin(Vec3_cross(a, b))

Fol_eq(a, b) ==
    Vec3_abs2(Fol_sub(a, b)) < Tol2 \/ Vec3_abs2(Fol_add(a, b)) < Tol2

Fol_cross(a, b) == aslin(Obj("Vec3", Cross3(a.v, b.v)))

Fol_rotate(a, axis, phi) ==
    asfol(Vec3_rotate(Obj("Vec3", a.v), Obj("Vec3", axis.v), phi))

(***************************************************************************)
(* Method resolution: Lin and Fol override Vec3, Pole inherits from Fol.   *)
(***************************************************************************)
py_eq(a, b) ==
    CASE a.cls = "Lin" -> Lin_eq(a, b)
      [] a.cls \in {"Fol", "Pole"} -> Fol_eq(a, b)
      [] OTHER -> Vec3_eq(a, b)
py_add(a, b) ==
    CASE a.cls = "Lin" -> Lin_add(a, b)
      [] a.cls \in {"Fol", "Pole"} -> Fol_add(a, b)
      [] OTHER -> nd_add(a, b)
py_iadd(a, b) ==
    CASE a.cls = "Lin" -> Lin_iadd(a, b)
      [] a.cls \in {"Fol", "Pole"} -> Fol_iadd(a, b)
      [] OTHER -> nd_add(a, b)
py_sub(a, b) ==
    CASE a.cls = "Lin" -> Lin_sub(a, b)
      [] a.cls \in {"Fol", "Pole"} -> Fol_sub(a, b)
      [] OTHER -> nd_sub(a, b)
py_isub(a, b) ==
    CASE a.cls = "Lin" -> Lin_isub(a, b)
      [] a.cls \in {"Fol", "Pole"} -> Fol_isub(a, b)
      [] OTHER -> nd_sub(a, b)
py_pow(a, b) ==
    CASE a.cls = "Lin" -> Lin_pow(a, b)
      [] a.cls \in {"Fol", "Pole"} -> Fol_pow(a, b)
      [] OTHER -> Vec3_pow(a, b)
py_cross(a, b) ==
    CASE a.cls = "Lin" -> Lin_cross(a, b)
      [] a.cls \in {"Fol", "Pole"} -> Fol_cross(a, b)
      [] OTHER -> Vec3_cross(a, b)
py_rotate(a, axis, phi) ==
    CASE a.cls = "Lin" -> Lin_rotate(a, axis, phi)
      [] a.cls \in {"Fol", "Pole"} -> Fol_rotate(a, axis, phi)
      [] OTHER -> Vec3_rotate(a, axis, phi)

(***************************************************************************)
(* Angles.  An angle is kept as the triple (d, na, nb) that determines it: *)
(* acosd(d / sqrt(na * nb)), d the dot product (its absolute value for the *)
(* axial classes) and na, nb the squared lengths.  A zero-length operand   *)
(* makes getuv divide 0 by 0: the angle is NaN.                            *)
(***************************************************************************)
Degrees(d, na, nb) == Obj("degrees", <<d, na, nb>>)
IsNaN(ang) == ang.v[2] * ang.v[3] = 0
\* ang <= 90 and ang > 90; both are False for NaN
LE90(ang) == ~IsNaN(ang) /\ ang.v[1] >= 0
GT90(ang) == ~IsNaN(ang) /\ ang.v[1] < 0
\* ang == 90: acosd(0)
Is90(ang) == ~IsNaN(ang) /\ ang.v[1] = 0

Vec3_angle(a, b) == Degrees(Dot(a.v, b.v), Norm2(a.v), Norm2(b.v))
\* the same without abs()
Lin_angle_directed(a, b) == Degrees(Dot(a.v, b.v), Norm2(a.v), Norm2(b.v))
Lin_angle(a, b) == Degrees(Abs(Dot(a.v, b.v)), Norm2(a.v), Norm2(b.v))
Fol_angle(a, b) == Degrees(Abs(Dot(a.v, b.v)), Norm2(a.v), Norm2(b.v))
py_angle(a, b) ==
    CASE a.cls = "Lin" -> Lin_angle(a, b)
      [] a.cls \in {"Fol", "Pole"} -> Fol_angle(a, b)
      [] OTHER -> Vec3_angle(a, b)

\* self/abs(self), kept as the array and the square of the length it is
\* divided by.  abs(self) is the numpy float 0.0 for the zero vector: every
\* component is 0/0, which numpy evaluates to nan with a RuntimeWarning.
Vec3_getuv_div(a) == [cls |-> a.cls, v |-> a.v, abs2 |-> Vec3_abs2(a)]
HasNaN(u) == u.abs2 = 0

(***************************************************************************)
(* The record of the last call: its receiver and argument as they were     *)
(* when the call was made, the value returned and the exception raised.    *)
(***************************************************************************)
None == "None"
Call(op, recv, arg, val, err) ==
    [op |-> op, recv |-> recv, arg |-> arg, val |-> val, err |-> err]
NoCall == Call("none", None, None, None, None)

\* A value returned, or an exception raised.
Ok(val) == [val |-> val, err |-> None]
Raise(err) == [val |-> None, err |-> err]

\* No Dataset, no FeatureSet, no call of halfspace in progress.
NoDataset == [data |-> <<>>, name |-> "None"]
NoSet == [cls |-> "None", data |-> <<>>, name |-> "None", cache |-> <<>>]
NoFrame == [pc |-> "none"]
\* No argument given
NoArg == [cls |-> "NoneType"]

(***************************************************************************)
(* fixpair(f, l): f and l rotated about f ** l by half of what their angle  *)
(* differs from 90 degrees.                                                *)
(***************************************************************************)
\* Vec3(x): the array of x viewed as a Vec3
Vec3(a) == Obj("Vec3", a.v)
\* (angle - 90)/2 in degrees; it is a multiple of 90, where cosd and sind are
\* tabulated, only for orthogonal operands
HalfMisfit(ang) == CASE ang.v[1] = 0 /\ ~IsNaN(ang) -> 0
\* a.rotate(axis, phi) of Vec3 called with the axis as it is given: k is
\* axis.getuv(), an object of the class of axis, and k.cross(a) is the method
\* of that class.  The cross method of a Lin returns a bound method, which
\* sind(phi) cannot be multiplied with.
Vec3_rotate_uncast(a, axis, phi) ==
    IF py_cross(Obj(axis.cls, axis.v), a).cls = "instancemethod asfol"
    THEN Raise("TypeError")
    ELSE Ok(Vec3_rotate(a, axis, phi))
fixpair(f, l) ==
    LET ax == py_pow(f, l)
        ang == HalfMisfit(Vec3_angle(Vec3(l), f))
        fr == Vec3_rotate_uncast(Vec3(f), ax, ang)
        lr == Vec3_rotate_uncast(Vec3(l), ax, -ang)
    IN  IF fr.err # None THEN fr
        ELSE IF lr.err # None THEN lr
        ELSE Ok(<<asfol(fr.val), aslin(lr.val)>>)

(***************************************************************************)
(* Element algebra: two objects of one class are built and one operation   *)
(* is applied to them.                                                     *)
(***************************************************************************)
InitAlg ==
    /\ \E c \in Classes, u \in Vecs, v \in Vecs :
          /\ lhs = Obj(c, u)
          /\ rhs = Obj(c, v)
    /\ ds = NoDataset
    /\ fs = NoSet
    /\ hs = NoFrame
    /\ errstate = "warn"
    /\ ret = NoCall

Fresh == ret.op = "none"

\* lhs == rhs
Eq ==
    /\ Fresh
    /\ ret' = Call("eq", lhs, rhs, py_eq(lhs, rhs), None)
    /\ UNCHANGED <<lhs, rhs, ds, fs, hs, errstate>>

\* lhs + rhs
AddOp ==
    /\ Fresh
    /\ ret' = Call("add", lhs, rhs, py_add(lhs, rhs), None)
    /\ UNCHANGED <<lhs, rhs, ds, fs, hs, errstate>>

\* lhs - rhs
SubOp ==
    /\ Fresh
    /\ ret' = Call("sub", lhs, rhs, py_sub(lhs, rhs), None)
    /\ UNCHANGED <<lhs, rhs, ds, fs, hs, errstate>>

\* lhs += rhs: the array of lhs is overwritten
IAddOp ==
    /\ Fresh
    /\ lhs' = py_iadd(lhs, rhs)
    /\ ret' = Call("iadd", lhs, rhs, lhs', None)
    /\ UNCHANGED <<rhs, ds, fs, hs, errstate>>

\* lhs -= rhs
ISubOp ==
    /\ Fresh
    /\ lhs' = py_isub(lhs, rhs)
    /\ ret' = Call("isub", lhs, rhs, lhs', None)
    /\ UNCHANGED <<rhs, ds, fs, hs, errstate>>

\* lhs ** rhs
PowOp ==
    /\ Fresh
    /\ ret' = Call("pow", lhs, rhs, py_pow(lhs, rhs), None)
    /\ UNCHANGED <<lhs, rhs, ds, fs, hs, errstate>>

\* lhs.cross(rhs)
CrossOp ==
    /\ Fresh
    /\ ret' = Call("cross", lhs, rhs, py_cross(lhs, rhs), None)
    /\ UNCHANGED <<lhs, rhs, ds, fs, hs, errstate>>

\* lhs.rotate(rhs, phi), about an axis along a coordinate axis
RotateOp ==
    /\ Fresh
    /\ AxisAligned(rhs.v)
    /\ \E phi \in Phis :
          ret' = Call("rotate", lhs, <<rhs, phi>>, py_rotate(lhs, rhs, phi), None)
    /\ UNCHANGED <<lhs, rhs, ds, fs, hs, errstate>>

\* lhs.rotate(rhs, phi).rotate(rhs, -phi): the result of a rotation is rotated
\* back
RotateBackOp ==
    /\ ret.op = "rotate"
    /\ LET axis == ret.arg[1]
           phi == ret.arg[2]
       IN  ret' = Call("rotate back", ret.val, <<axis, -phi>>,
                       py_rotate(ret.val, axis, -phi), None)
    /\ UNCHANGED <<lhs, rhs, ds, fs, hs, errstate>>

\* Axes and angles two features are rotated by together
RotAxes == {Obj("Lin", <<1, 0, 0>>), Obj("Lin", <<0, 1, 0>>), Obj("Lin", <<0, 0, 1>>)}
RotPhis == {90, 180, 270}

\* lhs.rotate(axis, phi).angle(rhs.rotate(axis, phi)) of two axial features
RotateAngleOp ==
    /\ Fresh
    /\ lhs.cls \in AxialClasses
    /\ \E axis \in RotAxes, phi \in RotPhis :
          ret' = Call("angle of rotated", <<lhs, rhs>>, <<axis, phi>>,
                      py_angle(py_rotate(lhs, axis, phi), py_rotate(rhs, axis, phi)),
                      None)
    /\ UNCHANGED <<lhs, rhs, ds, fs, hs, errstate>>

\* lhs.getuv()
GetuvOp ==
    /\ Fresh
    /\ ret' = Call("getuv", lhs, NoArg, Vec3_getuv_div(lhs), None)
    /\ UNCHANGED <<lhs, rhs, ds, fs, hs, errstate>>

\* lhs.angle(rhs)
AngleOp ==
    /\ Fresh
    /\ ret' = Call("angle", lhs, rhs, py_angle(lhs, rhs), None)
    /\ UNCHANGED <<lhs, rhs, ds, fs, hs, errstate>>

\* fixpair(lhs.asfol(), rhs.aslin()) with two vectors
FixpairOp ==
    /\ Fresh
    /\ lhs.cls = "Vec3"
    /\ LET r == fixpair(asfol(lhs), aslin(rhs))
       IN  ret' = Call("fixpair", asfol(lhs), aslin(rhs), r.val, r.err)
    /\ UNCHANGED <<lhs, rhs, ds, fs, hs, errstate>>

\* self - other of numpy.ndarray: no subtraction of None from a number
nd_sub_any(a, b) ==
    IF b.cls = "NoneType" THEN Raise("TypeError") ELSE Ok(nd_sub(a, b))
\* Vec3.__eq__ and Vec3.__ne__ with any right operand
Vec3_eq_any(a, b) ==
    LET d == nd_sub_any(a, b)
    IN  IF d.err # None THEN d ELSE Ok(Vec3_abs2(d.val) < Tol2)
Vec3_ne_any(a, b) ==
    LET e == Vec3_eq_any(a, b)
    IN  IF e.err # None THEN e ELSE Ok(~e.val)

\* lhs == None, lhs != None
EqNoneOp ==
    /\ Fresh
    /\ lhs.cls = "Vec3"
    /\ LET e == Vec3_eq_any(lhs, NoArg)
           n == Vec3_ne_any(lhs, NoArg)
       IN  ret' = Call("eq None", lhs, NoArg, <<e, n>>, None)
    /\ UNCHANGED <<lhs, rhs, ds, fs, hs, errstate>>

NextAlg ==
    \/ Eq
    \/ EqNoneOp
    \/ AddOp
    \/ SubOp
    \/ IAddOp
    \/ ISubOp
    \/ PowOp
    \/ CrossOp
    \/ RotateOp
    \/ RotateBackOp
    \/ RotateAngleOp
    \/ GetuvOp
    \/ AngleOp
    \/ FixpairOp

SpecAlg == InitAlg /\ [][NextAlg]_vars

(***************************************************************************)
(* Index pairs.                                                            *)
(***************************************************************************)
\* (1,1), (1,2), ..., (1,m), (2,1), ..., (n,m): the nested loops over i and j
Product(n, m) == [k \in 1..(n * m) |-> <<((k - 1) \div m) + 1, ((k - 1) % m) + 1>>]
\* itertools.combinations(range, 2), and "for i in range(n-1): for j in range(i+1, n)"
Combinations2(n) == SelectSeq(Product(n, n), LAMBDA p : p[1] < p[2])
Min(x, y) == IF x < y THEN x ELSE y

(***************************************************************************)
(* class Dataset(list): a list of features and a name.                     *)
(***************************************************************************)
MaxSum == 3
WithinCap(v) == \A i \in 1..3 : Abs(v[i]) <= MaxSum

Dataset_init(data, name) == [data |-> data, name |-> name]

Dataset_getlins(d) ==
    Dataset_init(SelectSeq(d.data, LAMBDA e : e.cls = "Lin"), d.name)
Dataset_getfols(d) ==
    Dataset_init(SelectSeq(d.data, LAMBDA e : e.cls = "Fol"), d.name)
Dataset_getpoles(d) ==
    Dataset_init(SelectSeq(d.data, LAMBDA e : e.cls = "Pole"), d.name)
Dataset_numlins(d) == Len(Dataset_getlins(d).data)
Dataset_numfols(d) == Len(Dataset_getfols(d).data)
Dataset_numpoles(d) == Len(Dataset_getpoles(d).data)

\* "r = self[0]; for v in self[1:]: r += v": r is the first element itself,
\* and += overwrites it.
RECURSIVE FoldIAdd(_, _)
FoldIAdd(r, rest) ==
    IF rest = <<>> THEN r ELSE FoldIAdd(py_iadd(r, Head(rest)), Tail(rest))
Dataset_resultant(d) ==
    IF d.data = <<>> THEN Raise("IndexError")
    ELSE Ok(FoldIAdd(d.data[1], Tail(d.data)))
\* The Dataset after the call: its first element holds the resultant.
Dataset_after_resultant(d) ==
    IF d.data = <<>> THEN d
    ELSE [d EXCEPT !.data[1] = FoldIAdd(d.data[1], Tail(d.data))]

\* 100*(2*abs(r) - n)/n, kept as the pair (abs(r) squared, n) that determines it
Dataset_rdegree(d) ==
    LET r == Dataset_resultant(d)
    IN  IF r.err # None THEN r
        ELSE Ok([abs2 |-> Vec3_abs2(r.val), n |-> Len(d.data)])

\* cross(): all pairs i < j
Dataset_cross_pairs(d) ==
    LET ix == Combinations2(Len(d.data))
    IN  Dataset_init([k \in 1..Len(ix) |-> py_pow(d.data[ix[k][1]], d.data[ix[k][2]])],
                     "Pairs")
\* cross(d) with a Dataset d: every self[i] with every d[j]
Dataset_cross_set(d, other) ==
    LET ix == Product(Len(d.data), Len(other.data))
    IN  Dataset_init([k \in 1..Len(ix) |->
                         py_pow(d.data[ix[k][1]], other.data[ix[k][2]])],
                     "Pairs")
\* cross(d) with a single feature d: "d == None" subtracts None from d
Dataset_cross_vec(d, other) == Raise("TypeError")

\* the same with only the first element rotated
Dataset_rotate_head(d, axis, phi) ==
    Dataset_init([i \in 1..Len(d.data) |->
                     IF i = 1 THEN py_rotate(d.data[i], axis, phi) ELSE d.data[i]],
                 "R-" \o d.name)
Dataset_rotate(d, axis, phi) ==
    Dataset_init([i \in 1..Len(d.data) |-> py_rotate(d.data[i], axis, phi)],
                 "R-" \o d.name)

\* angle(other) with a single feature
Dataset_angle_vec(d, other) ==
    Ok([i \in 1..Len(d.data) |-> py_angle(d.data[i], other)])
\* angle(other) with a Dataset: e.angle(other) calls other.getuv()
Dataset_angle_set(d, other) ==
    IF d.data = <<>> THEN Ok(<<>>) ELSE Raise("AttributeError")

(***************************************************************************)
(* The features a FeatureSet holds: Vector3 and its axial subclasses       *)
(* Lineation and Foliation (apsg.math._vector, apsg.feature._geodata).     *)
(***************************************************************************)
FeatureClasses == {"Vector3", "Lineation", "Foliation"}
Feature_isinstance(o, dtype) ==
    \/ o.cls = dtype
    \/ dtype = "Vector3" /\ o.cls \in {"Lineation", "Foliation"}
\* dtype_cls(d): a feature of class dtype with the components of d
Feature_cast(dtype, o) == Obj(dtype, o.v)
Feature_neg(e) == Obj(e.cls, Neg3(e.v))
Feature_add(e, f) ==
    IF e.cls \in {"Lineation", "Foliation"} /\ Dot(e.v, f.v) < 0
    THEN Obj(e.cls, Sub3(e.v, f.v))
    ELSE Obj(e.cls, Add3(e.v, f.v))
Feature_rotate(e, axis, phi) ==
    Obj(e.cls, Vec3_rotate(Obj("Vec3", e.v), Obj("Vec3", axis.v), phi).v)
Feature_cross(e, f) ==
    Obj(CASE e.cls = "Lineation" -> "Foliation"
          [] e.cls = "Foliation" -> "Lineation"
          [] OTHER -> e.cls,
        Cross3(e.v, f.v))
Feature_angle(e, f) ==
    IF e.cls \in {"Lineation", "Foliation"}
    THEN Degrees(Abs(Dot(e.v, f.v)), Norm2(e.v), Norm2(f.v))
    ELSE Degrees(Dot(e.v, f.v), Norm2(e.v), Norm2(f.v))
\* e / abs(e): the features of a set lie along coordinate axes
Feature_normalized(e) == Obj(e.cls, Vec3_getuv(e).v)

(***************************************************************************)
(* class FeatureSet and its subclasses Vector3Set, LineationSet,           *)
(* FoliationSet: a tuple of features of one class, a name and a cache.     *)
(***************************************************************************)
SetClasses == {"Vector3Set", "LineationSet", "FoliationSet"}
\* __feature_type__
feature_type(setcls) ==
    CASE setcls = "Vector3Set" -> "Vector3"
      [] setcls = "LineationSet" -> "Lineation"
      [] setcls = "FoliationSet" -> "Foliation"
IsFeatureSet(x) == x.cls \in SetClasses

\* tuple([...]), list(...), np.asarray([...]): the elements, evaluated, in order
tuple(lst) == SelectSeq(lst, LAMBDA e : TRUE)
np_asarray(lst) == SelectSeq(lst, LAMBDA e : TRUE)

FeatureSet_init_nocheck(setcls, data, name) ==
    Ok([cls |-> setcls, data |-> data, name |-> name, cache |-> <<>>])
FeatureSet_init(setcls, data, name) ==
    LET dtype_cls == feature_type(setcls)
    IN  IF \A i \in 1..Len(data) : Feature_isinstance(data[i], dtype_cls)
        THEN Ok([cls |-> setcls,
                 data |-> tuple([i \in 1..Len(data) |-> Feature_cast(dtype_cls, data[i])]),
                 name |-> name,
                 cache |-> <<>>])
        ELSE Raise("AssertionError")

G(lst, name) ==
    IF lst = <<>> THEN Raise("IndexError")
    ELSE LET dtype_cls == lst[1].cls
         IN  IF ~(\A i \in 1..Len(lst) : Feature_isinstance(lst[i], dtype_cls))
             THEN Raise("AssertionError")
             ELSE CASE dtype_cls = "Vector3" -> FeatureSet_init("Vector3Set", lst, name)
                    [] dtype_cls = "Lineation" -> FeatureSet_init("LineationSet", lst, name)
                    [] dtype_cls = "Foliation" -> FeatureSet_init("FoliationSet", lst, name)
                    [] OTHER -> Raise("TypeError")

FeatureSet_rotate_reversed(self, axis, phi) ==
    FeatureSet_init(self.cls,
                    [i \in 1..Len(self.data) |->
                        Feature_rotate(self.data[Len(self.data) + 1 - i], axis, phi)],
                    self.name)
FeatureSet_rotate(self, axis, phi) ==
    FeatureSet_init(self.cls,
                    [i \in 1..Len(self.data) |-> Feature_rotate(self.data[i], axis, phi)],
                    self.name)

\* The argument "other" of cross and angle: absent (NoArg), a FeatureSet, or
\* anything else (a feature, a number).

\* the list "res" of Vector3Set.cross
Vector3Set_cross_res(self, other) ==
    IF other = NoArg
    THEN LET ix == Combinations2(Len(self.data))
         IN  Ok([k \in 1..Len(ix) |->
                    Feature_cross(self.data[ix[k][1]], self.data[ix[k][2]])])
    ELSE IF IsFeatureSet(other)
    THEN Ok([k \in 1..Min(Len(self.data), Len(other.data)) |->
                Feature_cross(self.data[k], other.data[k])])
    ELSE IF Feature_isinstance(other, "Vector3")
    THEN Ok([k \in 1..Len(self.data) |-> Feature_cross(self.data[k], other)])
    ELSE Raise("TypeError")
Vector3Set_cross(self, other) ==
    LET res == Vector3Set_cross_res(self, other)
    IN  IF res.err # None THEN res ELSE G(res.val, self.name)

Vector3Set_angle(self, other) ==
    IF other = NoArg
    THEN LET ix == Combinations2(Len(self.data))
         IN  Ok(np_asarray([k \in 1..Len(ix) |->
                    Feature_angle(self.data[ix[k][1]], self.data[ix[k][2]])]))
    ELSE IF IsFeatureSet(other)
    THEN Ok(np_asarray([k \in 1..Min(Len(self.data), Len(other.data)) |->
                Feature_angle(self.data[k], other.data[k])]))
    ELSE IF Feature_isinstance(other, "Vector3")
    THEN Ok(np_asarray([k \in 1..Len(self.data) |-> Feature_angle(self.data[k], other)]))
    ELSE Raise("TypeError")

\* sum(self): 0 + self[0] + self[1] + ...
RECURSIVE FoldAdd(_, _)
FoldAdd(r, rest) ==
    IF rest = <<>> THEN r ELSE FoldAdd(Feature_add(r, Head(rest)), Tail(rest))
IntZero == Obj("int", Zero3)
Vector3Set_R(self) ==
    IF self.data = <<>> THEN IntZero ELSE FoldAdd(self.data[1], Tail(self.data))

Vector3Set_normalized(self) ==
    FeatureSet_init(self.cls,
                    [i \in 1..Len(self.data) |-> Feature_normalized(self.data[i])],
                    self.name)

\* 100 * (2 * abs(R) - N) / N, kept as the pair (abs(R) squared, N)
Vector3Set_rdegree(self) ==
    IF Len(self.data) = 0 THEN Raise("ZeroDivisionError")
    ELSE Ok([abs2 |-> Norm2(Vector3Set_R(Vector3Set_normalized(self).val).v),
             n |-> Len(self.data)])

\* Fisher's statistics.  A statistic is kept as the expression that gives it
\* and the quantities N and abs(R) squared the expression is evaluated with.
Stat(expr, N, R2) == <<expr, N, R2>>
FisherDefaults == [k |-> Stat("inf", 0, 0), a95 |-> Stat("0", 0, 0), csd |-> Stat("0", 0, 0)]
\* "(N - R) / R" with R = 0.0 raises for a Python float; for a numpy float it
\* is inf (with a warning) and acosd of it is nan.
FisherComputed(N, R2, npfloat) ==
    IF R2 = 0 /\ ~npfloat THEN Raise("ZeroDivisionError")
    ELSE IF N = 1 THEN Raise("ZeroDivisionError")
    ELSE Ok([k |-> Stat("(N-1)/(N-R)", N, R2),
             a95 |-> IF R2 = 0 THEN Stat("nan", N, R2)
                     ELSE Stat("acosd(1-((N-R)/R)*(20**(1/(N-1))-1))", N, R2),
             csd |-> Stat("81/sqrt(k)", N, R2)])
Vector3Set_fisher_statistics_unguarded(self, npfloat) ==
    FisherComputed(Len(self.data),
                   Norm2(Vector3Set_R(Vector3Set_normalized(self).val).v), npfloat)
Vector3Set_fisher_statistics(self, npfloat) ==
    LET N == Len(self.data)
        R2 == Norm2(Vector3Set_R(Vector3Set_normalized(self).val).v)
    IN  IF N * N # R2 THEN FisherComputed(N, R2, npfloat) ELSE Ok(FisherDefaults)

(***************************************************************************)
(* Collections: a session builds a Dataset by append, or starts by         *)
(* constructing a FeatureSet, and calls the methods of the one it works    *)
(* with.                                                                   *)
(***************************************************************************)
NoObj == Obj("None", Zero3)
\* Features a Dataset is filled with, and a FeatureSet is constructed from
DatasetPool == {Obj(c, v) : c \in AxialClasses, v \in SetVecs}
FeaturePool == {Obj(c, v) : c \in FeatureClasses, v \in SetVecs} \cup {IntZero}
Lists(S) == UNION {[1..n -> S] : n \in 0..MaxLen}
ListsOfLen(S, n) == [1..n -> S]
\* Arguments of the collection methods: the lineations along x and y
Axes == {Obj("Lin", <<1, 0, 0>>), Obj("Lin", <<0, 1, 0>>)}

Init ==
    /\ \E name \in Names : ds = Dataset_init(<<>>, name)
    /\ fs = NoSet
    /\ lhs = NoObj
    /\ rhs = NoObj
    /\ hs = NoFrame
    /\ errstate = "warn"
    /\ ret = NoCall

\* A call that reads the collection leaves it as it was: whatever can follow
\* it can be made in its place, and is explored from there.
Updates == {"none", "Dataset.append", "Dataset.resultant", "Dataset.rdegree",
            "FeatureSet", "G"}
UsesDataset == fs = NoSet /\ ret.op \in Updates
UsesFeatureSet == fs # NoSet /\ ret.op \in Updates

\* ds.append(e)
DsAppend ==
    /\ UsesDataset
    /\ Len(ds.data) < MaxLen
    /\ \E e \in DatasetPool :
          /\ ds' = [ds EXCEPT !.data = Append(ds.data, e)]
          /\ ret' = Call("Dataset.append", ds, e, None, None)
    /\ UNCHANGED <<lhs, rhs, fs, hs, errstate>>

\* ds.resultant
DsResultant ==
    /\ UsesDataset
    /\ LET r == Dataset_resultant(ds)
       IN  /\ r.err = None => WithinCap(r.val.v)
           /\ ds' = Dataset_after_resultant(ds)
           /\ ret' = Call("Dataset.resultant", ds, NoArg, r.val, r.err)
    /\ UNCHANGED <<lhs, rhs, fs, hs, errstate>>

\* ds.rdegree
DsRDegree ==
    /\ UsesDataset
    /\ LET r == Dataset_rdegree(ds)
       IN  /\ r.err = None => WithinCap(Dataset_resultant(ds).val.v)
           /\ ds' = Dataset_after_resultant(ds)
           /\ ret' = Call("Dataset.rdegree", ds, NoArg, r.val, r.err)
    /\ UNCHANGED <<lhs, rhs, fs, hs, errstate>>

\* ds.numlins, ds.numfols, ds.numpoles
DsCounts ==
    /\ UsesDataset
    /\ ret' = Call("Dataset.counts", ds, NoArg,
                   <<Dataset_numlins(ds), Dataset_numfols(ds), Dataset_numpoles(ds)>>,
                   None)
    /\ UNCHANGED <<lhs, rhs, ds, fs, hs, errstate>>

\* ds.cross(), ds.cross(d) with a Dataset of lineations, ds.cross(l) with a lineation
DsCross ==
    /\ UsesDataset
    /\ \/ ret' = Call("Dataset.cross", ds, NoArg, Dataset_cross_pairs(ds), None)
       \/ \E d \in ListsOfLen(Axes, Len(ds.data)) :
             ret' = Call("Dataset.cross", ds, Dataset_init(d, "Default"),
                         Dataset_cross_set(ds, Dataset_init(d, "Default")), None)
       \/ \E l \in Axes :
             LET r == Dataset_cross_vec(ds, l)
             IN  ret' = Call("Dataset.cross", ds, l, r.val, r.err)
    /\ UNCHANGED <<lhs, rhs, ds, fs, hs, errstate>>

\* ds.rotate(axis, phi)
DsRotate ==
    /\ UsesDataset
    /\ \E axis \in Axes, phi \in Phis :
          ret' = Call("Dataset.rotate", ds, <<axis, phi>>,
                      Dataset_rotate(ds, axis, phi), None)
    /\ UNCHANGED <<lhs, rhs, ds, fs, hs, errstate>>

\* ds.angle(l) with a lineation, ds.angle(d) with a Dataset
DsAngle ==
    /\ UsesDataset
    /\ \/ \E l \in Axes :
             LET r == Dataset_angle_vec(ds, l)
             IN  ret' = Call("Dataset.angle", ds, l, r.val, r.err)
       \/ LET r == Dataset_angle_set(ds, ds)
          IN  ret' = Call("Dataset.angle", ds, ds, r.val, r.err)
    /\ UNCHANGED <<lhs, rhs, ds, fs, hs, errstate>>

\* Vector3Set(data, name=name), LineationSet(...), FoliationSet(...)
FsConstruct ==
    /\ fs = NoSet
    /\ ret.op = "none"
    /\ \E setcls \in SetClasses, data \in Lists(FeaturePool) :
          LET r == FeatureSet_init(setcls, data, ds.name)
          IN  /\ fs' = IF r.err = None THEN r.val ELSE fs
              /\ ret' = Call("FeatureSet", [cls |-> setcls], data, r.val, r.err)
    /\ UNCHANGED <<lhs, rhs, ds, hs, errstate>>

\* G(lst, name=name)
FsG ==
    /\ fs = NoSet
    /\ ret.op = "none"
    /\ \E lst \in Lists(FeaturePool) :
          LET r == G(lst, ds.name)
          IN  /\ fs' = IF r.err = None THEN r.val ELSE fs
              /\ ret' = Call("G", NoSet, lst, r.val, r.err)
    /\ UNCHANGED <<lhs, rhs, ds, hs, errstate>>

\* fs.rotate(axis, phi)
FsRotate ==
    /\ UsesFeatureSet
    /\ \E axis \in Axes, phi \in Phis :
          LET r == FeatureSet_rotate(fs, Feature_cast("Lineation", axis), phi)
          IN  ret' = Call("FeatureSet.rotate", fs, <<axis, phi>>, r.val, r.err)
    /\ UNCHANGED <<lhs, rhs, ds, fs, hs, errstate>>

\* The arguments cross and angle are called with: none, a set of the same
\* class and length, a feature, a number.
Others ==
    {NoArg, IntZero}
        \cup {Obj(feature_type(fs.cls), v) : v \in SetVecs}
        \cup {FeatureSet_init(fs.cls, d, "Default").val :
                d \in ListsOfLen({Obj(feature_type(fs.cls), v) : v \in SetVecs},
                                 Len(fs.data))}

\* fs.cross(), fs.cross(other)
FsCross ==
    /\ UsesFeatureSet
    /\ \E other \in Others :
          LET r == Vector3Set_cross(fs, other)
          IN  ret' = Call("Vector3Set.cross", fs, other, r.val, r.err)
    /\ UNCHANGED <<lhs, rhs, ds, fs, hs, errstate>>

\* fs.angle(), fs.angle(other)
FsAngle ==
    /\ UsesFeatureSet
    /\ \E other \in Others :
          LET r == Vector3Set_angle(fs, other)
          IN  ret' = Call("Vector3Set.angle", fs, other, r.val, r.err)
    /\ UNCHANGED <<lhs, rhs, ds, fs, hs, errstate>>

\* fs.R()
FsR ==
    /\ UsesFeatureSet
    /\ ret' = Call("Vector3Set.R", fs, NoArg, Vector3Set_R(fs), None)
    /\ UNCHANGED <<lhs, rhs, ds, fs, hs, errstate>>

\* fs.rdegree()
FsRDegree ==
    /\ UsesFeatureSet
    /\ LET r == Vector3Set_rdegree(fs)
       IN  ret' = Call("Vector3Set.rdegree", fs, NoArg, r.val, r.err)
    /\ UNCHANGED <<lhs, rhs, ds, fs, hs, errstate>>

\* ds.rotate(axis, phi).rdegree and then ds.rdegree.  ds is left as ds.rdegree
\* leaves it, from where DsRDegree goes on.
DsRotateRDegree ==
    /\ UsesDataset
    /\ \E axis \in Axes, phi \in Phis :
          LET rotated == Dataset_rdegree(Dataset_rotate(ds, axis, phi))
              r == Dataset_rdegree(ds)
          IN  /\ r.err = None => WithinCap(Dataset_resultant(ds).val.v)
              /\ ds' = Dataset_after_resultant(ds)
              /\ ret' = Call("Dataset.rotate.rdegree", ds, <<axis, phi>>,
                             <<rotated.val, r.val>>,
                             IF rotated.err # None THEN rotated.err ELSE r.err)
    /\ UNCHANGED <<lhs, rhs, fs, hs, errstate>>

\* fs.rotate(axis, phi).rdegree() and fs.rdegree()
FsRotateRDegree ==
    /\ UsesFeatureSet
    /\ \E axis \in Axes, phi \in Phis :
          LET rotated == Vector3Set_rdegree(
                             FeatureSet_rotate(fs, Feature_cast("Lineation", axis), phi).val)
              r == Vector3Set_rdegree(fs)
          IN  ret' = Call("FeatureSet.rotate.rdegree", fs, <<axis, phi>>,
                          <<rotated.val, r.val>>,
                          IF rotated.err # None THEN rotated.err ELSE r.err)
    /\ UNCHANGED <<lhs, rhs, ds, fs, hs, errstate>>

\* fs.fisher_statistics()
FsFisher ==
    /\ UsesFeatureSet
    /\ \E npfloat \in BOOLEAN :
          LET r == Vector3Set_fisher_statistics(fs, npfloat)
          IN  ret' = Call("Vector3Set.fisher_statistics", fs, NoArg, r.val, r.err)
    /\ UNCHANGED <<lhs, rhs, ds, fs, hs, errstate>>

Next ==
    \/ DsAppend
    \/ DsResultant
    \/ DsRDegree
    \/ DsCounts
    \/ DsCross
    \/ DsRotate
    \/ DsAngle
    \/ FsConstruct
    \/ FsG
    \/ FsRotate
    \/ FsCross
    \/ FsAngle
    \/ FsR
    \/ FsRDegree
    \/ FsFisher
    \/ DsRotateRDegree
    \/ FsRotateRDegree

Spec == Init /\ [][Next]_vars

(***************************************************************************)
(* Vector3Set.halfspace, statement by statement.  The frame hs holds the   *)
(* locals v_data, ang > 90 ("do"), ix and alldone.  The angle to a         *)
(* zero-length resultant is a division of 0 by 0: NaN where floating point *)
(* errors are ignored or warned about, an exception where they are raised  *)
(* (errstate).                                                             *)
(***************************************************************************)
\* Components of the vectors halfspace is run on
HalfVecs == {v \in [1..3 -> -2..2] : v[2] \in -1..1 /\ v[3] = 0 /\ v # Zero3}

\* v.angle(R) with R the value of v.R()
halfspace_angle(v, R, es) ==
    LET r == Vector3Set_angle(v, R)
    IN  IF r.err # None THEN r
        ELSE IF es = "raise" /\ \E k \in 1..Len(r.val) : IsNaN(r.val[k])
        THEN Raise("FloatingPointError")
        ELSE r
\* Vector3Set(v_data)
halfspace_v(v_data) == FeatureSet_init("Vector3Set", v_data, "Default").val
\* np.all(ang <= 90)
AllLE90(ang) == \A k \in 1..Len(ang) : LE90(ang[k])

Frame(pc, v_data, do, ix, alldone, result, err) ==
    [pc |-> pc, v_data |-> v_data, do |-> do, ix |-> ix, alldone |-> alldone,
     result |-> result, err |-> err]

\* isinstance(other, type(self)): LineationSet and FoliationSet are subclasses
\* of Vector3Set
FeatureSet_isinstance(other, setcls) ==
    /\ IsFeatureSet(other)
    /\ \/ other.cls = setcls
       \/ setcls = "Vector3Set"
\* self + other
FeatureSet_add(self, other) ==
    IF FeatureSet_isinstance(other, self.cls)
    THEN FeatureSet_init(self.cls, self.data \o other.data, self.name)
    ELSE Raise("TypeError")

\* An empty Vector3Set, LineationSet or FoliationSet
InitHalf ==
    /\ \E setcls \in SetClasses, name \in Names :
          fs = FeatureSet_init(setcls, <<>>, name).val
    /\ errstate \in {"warn", "raise"}
    /\ hs = NoFrame
    /\ ds = NoDataset
    /\ lhs = NoObj
    /\ rhs = NoObj
    /\ ret = NoCall

\* fs = fs + type(fs)([e])
hs_add ==
    /\ hs.pc = "none"
    /\ Len(fs.data) < MaxLen
    /\ \E v \in HalfVecs :
          LET other == FeatureSet_init(fs.cls, <<Obj(feature_type(fs.cls), v)>>, "Default")
          IN  fs' = FeatureSet_add(fs, other.val).val
    /\ UNCHANGED <<lhs, rhs, ds, hs, ret, errstate>>

\* Vector3Set.halfspace up to the while test: v = Vector3Set(self);
\* v_data = list(v); alldone = np.all(v.angle(v.R()) <= 90), a the outcome of
\* v.angle(v.R())
halfspace_enter(v_data, a) ==
    IF a.err # None
    THEN Frame("raised", v_data, <<>>, 0, FALSE, NoSet, a.err)
    ELSE Frame("while", v_data, <<>>, 0, AllLE90(a.val), NoSet, None)

\* the same, returning type(self)([dtype_cls(vec) for vec in v])
halfspace_while_unnamed(self, f, a) ==
    IF f.alldone
    THEN LET r == FeatureSet_init(self.cls,
                     [i \in 1..Len(f.v_data) |->
                         Feature_cast(feature_type(self.cls), f.v_data[i])],
                     "Default")
         IN  [f EXCEPT !.pc = "returned", !.result = r.val]
    ELSE IF a.err # None
    THEN [f EXCEPT !.pc = "raised", !.err = a.err]
    ELSE [f EXCEPT !.pc = "for", !.ix = 1,
                   !.do = [k \in 1..Len(a.val) |-> GT90(a.val[k])]]

\* while not alldone: ang = v.angle(v.R()); for ix, do in enumerate(ang > 90)
\* with a the outcome of v.angle(v.R()); once alldone,
\* return type(self)([dtype_cls(vec) for vec in v], name=self.name)
halfspace_while(self, f, a) ==
    IF f.alldone
    THEN LET r == FeatureSet_init(self.cls,
                     [i \in 1..Len(f.v_data) |->
                         Feature_cast(feature_type(self.cls), f.v_data[i])],
                     self.name)
         IN  [f EXCEPT !.pc = "returned", !.result = r.val]
    ELSE IF a.err # None
    THEN [f EXCEPT !.pc = "raised", !.err = a.err]
    ELSE [f EXCEPT !.pc = "for", !.ix = 1,
                   !.do = [k \in 1..Len(a.val) |-> GT90(a.val[k])]]

\* if do: v_data[ix] = -v_data[ix]
halfspace_flip(f) ==
    IF f.ix <= Len(f.do) /\ f.do[f.ix]
    THEN [f.v_data EXCEPT ![f.ix] = Feature_neg(f.v_data[f.ix])]
    ELSE f.v_data

\* one iteration of the for loop: v_data after the flip, v = Vector3Set(v_data),
\* alldone = np.all(v.angle(v.R()) <= 90) with a the outcome of v.angle(v.R());
\* after the last iteration, back to the while test
halfspace_for(f, vd, a) ==
    IF f.ix > Len(f.do)
    THEN [f EXCEPT !.pc = "while"]
    ELSE IF a.err # None
    THEN [f EXCEPT !.pc = "raised", !.v_data = vd, !.err = a.err]
    ELSE [f EXCEPT !.v_data = vd, !.ix = f.ix + 1, !.alldone = AllLE90(a.val)]

\* fs.halfspace() is called
hs_call ==
    /\ hs.pc = "none"
    /\ \E v \in {halfspace_v(fs.data)} :
          \E R \in {Vector3Set_R(v)} :
             \E a \in {halfspace_angle(v, R, errstate)} :
                hs' = halfspace_enter(v.data, a)
    /\ UNCHANGED <<lhs, rhs, ds, fs, ret, errstate>>

hs_while ==
    /\ hs.pc = "while"
    /\ \E v \in {halfspace_v(hs.v_data)} :
          \E R \in {Vector3Set_R(v)} :
             \E a \in {halfspace_angle(v, R, errstate)} :
                hs' = halfspace_while(fs, hs, a)
    /\ UNCHANGED <<lhs, rhs, ds, fs, ret, errstate>>

hs_for ==
    /\ hs.pc = "for"
    /\ \E v \in {halfspace_v(halfspace_flip(hs))} :
          \E R \in {Vector3Set_R(v)} :
             \E a \in {halfspace_angle(v, R, errstate)} :
                hs' = halfspace_for(hs, v.data, a)
    /\ UNCHANGED <<lhs, rhs, ds, fs, ret, errstate>>

NextHalf ==
    \/ hs_add
    \/ hs_call
    \/ hs_while
    \/ hs_for

\* a call that has been made runs on until it returns or raises
SpecHalf == InitHalf /\ [][NextHalf]_vars /\ WF_vars(hs_while \/ hs_for)

(***************************************************************************)
(* Azimuth and inclination.  Lin(azi, inc), Fol(azi, inc) and Pole(azi,     *)
(* inc) are built from direction cosines and read back by the property dd. *)
(* At the multiples of 45 degrees cosd and sind are 0, 1, -1 or these      *)
(* divided by sqrt(2): a function value is kept as its numerator, and the  *)
(* direction cosines as an integer vector along the unit vector (dd reads  *)
(* the direction only: it starts from getuv).                              *)
(***************************************************************************)
AziSteps == 24
\* azimuths a feature is built with: multiples of 45 from -360 on
Azimuths == {45 * k - 360 : k \in 0..(AziSteps - 1)}
Inclinations == {-45, 0, 45, 90}

\* cosd(x) = cosn(x)/sqrt(root(x)), sind(x) = sinn(x)/sqrt(root(x))
root(x) == IF x % 90 = 0 THEN 1 ELSE 2
cosn(x) == CASE x % 360 \in {0, 45, 315} -> 1
             [] x % 360 \in {90, 270} -> 0
             [] x % 360 \in {135, 180, 225} -> -1
sinn(x) == CASE x % 360 \in {45, 90, 135} -> 1
             [] x % 360 \in {0, 180} -> 0
             [] x % 360 \in {225, 270, 315} -> -1

\* getldc(u, v) and getfdc(u, v), multiplied by sqrt(root(u) * root(v))
getldc(u, v) == <<cosn(u) * cosn(v), sinn(u) * cosn(v), sinn(v) * root(u)>>
getfdc(u, v) == <<-cosn(u) * sinn(v), -sinn(u) * sinn(v), cosn(v) * root(u)>>
\* The products are integers along the unit vector unless sqrt(2) is left in
\* one component only.  cosd(90) is 6e-17 in floating point, not 0: a
\* vertical Lin keeps a trace of its azimuth that the integers cannot hold.
Exact_ldc(u, v) == (root(u) = 1 \/ sinn(v) = 0) /\ cosn(v) # 0
Exact_fdc(u, v) == root(u) = 1 \/ cosn(v) = 0 \/ sinn(v) = 0

\* The sign of the floating-point cosd(u): cosd(90) is 6.1e-17 and cosd(270)
\* is -1.8e-16.
FloatCosPositive(u) == u % 360 \in {0, 45, 90, 315}
\* A feature built from azimuth and inclination.  negx tells that its x
\* component has the sign bit set: a zero component is 0.0 or -0.0, and
\* atan2d tells them apart.  x is cosd(u)*cosd(v) for a Lin and
\* -cosd(u)*sind(v) for a Fol, where sind(0) is 0.0.
Built(c, v, negx) == [cls |-> c, v |-> v, negx |-> negx]
Lin_new(azi, inc) ==
    Built("Lin", getldc(azi, inc), FloatCosPositive(azi) = (cosn(inc) < 0))
Fol_new(azi, inc) ==
    Built("Fol", getfdc(azi, inc), FloatCosPositive(azi) # (sinn(inc) < 0))
Pole_new(azi, inc) ==
    Built("Pole", getfdc(azi, inc), FloatCosPositive(azi) # (sinn(inc) < 0))

\* atan2d(y, x) in the eight compass directions.  Where x and y are both zero
\* it is 0 for x = 0.0 and 180 or -180 (the sign of y) for x = -0.0; dd
\* takes it modulo 360.
atan2d(y, x, negx) ==
    CASE x = 0 /\ y = 0 -> IF negx THEN 180 ELSE 0
      [] y = 0 /\ x > 0 -> 0
      [] y = x /\ x > 0 -> 45
      [] x = 0 /\ y > 0 -> 90
      [] y = -x /\ y > 0 -> 135
      [] y = 0 /\ x < 0 -> 180
      [] y = x /\ x < 0 -> -135
      [] x = 0 /\ y < 0 -> -90
      [] y = -x /\ y < 0 -> -45
\* asind(z / sqrt(n2))
asind(z, n2) ==
    CASE z = 0 -> 0
      [] z * z = n2 -> 90 * Sgn(z)
      [] 2 * z * z = n2 -> 45 * Sgn(z)

Lin_dd_noflip(a) ==
    <<atan2d(a.v[2], a.v[1], a.negx) % 360, asind(a.v[3], Norm2(a.v))>>
Lin_dd(a) ==
    LET n == IF a.v[3] < 0 THEN Built(a.cls, Neg3(a.v), ~a.negx) ELSE a
    IN  <<atan2d(n.v[2], n.v[1], n.negx) % 360, asind(n.v[3], Norm2(n.v))>>
Fol_dd(a) ==
    LET n == IF a.v[3] < 0 THEN Built(a.cls, Neg3(a.v), ~a.negx) ELSE a
    IN  <<(atan2d(n.v[2], n.v[1], n.negx) + 180) % 360,
          90 - asind(n.v[3], Norm2(n.v))>>
py_dd(a) == IF a.cls = "Lin" THEN Lin_dd(a) ELSE Fol_dd(a)

InitDD ==
    /\ lhs = NoObj
    /\ rhs = NoObj
    /\ ds = NoDataset
    /\ fs = NoSet
    /\ hs = NoFrame
    /\ errstate = "warn"
    /\ ret = NoCall

\* lhs = Lin(azi, inc)
NewLin ==
    /\ Fresh
    /\ \E azi \in Azimuths, inc \in Inclinations :
          /\ Exact_ldc(azi, inc)
          /\ lhs' = Lin_new(azi, inc)
          /\ ret' = Call("Lin", NoObj, <<azi, inc>>, lhs', None)
    /\ UNCHANGED <<rhs, ds, fs, hs, errstate>>

\* lhs = Fol(azi, inc)
NewFol ==
    /\ Fresh
    /\ \E azi \in Azimuths, inc \in Inclinations :
          /\ Exact_fdc(azi, inc)
          /\ lhs' = Fol_new(azi, inc)
          /\ ret' = Call("Fol", NoObj, <<azi, inc>>, lhs', None)
    /\ UNCHANGED <<rhs, ds, fs, hs, errstate>>

\* lhs = Pole(azi, inc)
NewPole ==
    /\ Fresh
    /\ \E azi \in Azimuths, inc \in Inclinations :
          /\ Exact_fdc(azi, inc)
          /\ lhs' = Pole_new(azi, inc)
          /\ ret' = Call("Pole", NoObj, <<azi, inc>>, lhs', None)
    /\ UNCHANGED <<rhs, ds, fs, hs, errstate>>

\* lhs.dd, of the feature just built; arg keeps what it was built with
DdOp ==
    /\ ret.op \in {"Lin", "Fol", "Pole"}
    /\ ret' = Call("dd", lhs, ret.arg, py_dd(lhs), None)
    /\ UNCHANGED <<lhs, rhs, ds, fs, hs, errstate>>

NextDD ==
    \/ NewLin
    \/ NewFol
    \/ NewPole
    \/ DdOp

SpecDD == InitDD /\ [][NextDD]_vars

(***************************************************************************)
(* class Ortensor: the orientation tensor M of a Dataset, the transpose of *)
(* the array of its elements times the array, with eigenvalues and         *)
(* eigenvectors in descending order.  The elements lie along coordinate    *)
(* axes, so M is diagonal, its eigenvalues are its diagonal and its        *)
(* eigenvectors the coordinate axes.                                       *)
(***************************************************************************)
MaxOT == 4
Unit3 == << <<1, 0, 0>>, <<0, 1, 0>>, <<0, 0, 1>> >>
RECURSIVE SumSeq(_)
SumSeq(q) == IF q = <<>> THEN 0 ELSE Head(q) + SumSeq(Tail(q))
\* np.dot(np.array(d).T, np.array(d))
np_dot_T(data) ==
    [i \in 1..3 |-> [j \in 1..3 |->
        SumSeq([k \in 1..Len(data) |-> data[k].v[i] * data[k].v[j]])]]
IsDiagonal(M) == \A i \in 1..3 : \A j \in 1..3 : i # j => M[i][j] = 0
\* np.linalg.eig of a diagonal matrix: the diagonal, and the identity whose
\* columns are the eigenvectors
np_linalg_eig(M) == [vc |-> [i \in 1..3 |-> M[i][i]], vv |-> Unit3]
\* np.argsort(vc): the indices in ascending order of value, equal values in
\* the order of their indices
np_argsort(vc) ==
    CHOOSE p \in [1..3 -> 1..3] :
        /\ \A i \in 1..3 : \E k \in 1..3 : p[k] = i
        /\ \A i \in 1..2 :
              \/ vc[p[i]] < vc[p[i + 1]]
              \/ vc[p[i]] = vc[p[i + 1]] /\ p[i] < p[i + 1]
\* ix[::-1]
reversed(ix) == [k \in 1..Len(ix) |-> ix[Len(ix) + 1 - k]]
\* np.log(a / b), kept as the pair (a, b): -inf for a = 0, nan for 0/0
Log(a, b) == [a |-> a, b |-> b]

Ortensor_init_ascending(d) ==
    LET M == np_dot_T(d.data)
        e == np_linalg_eig(M)
        ix == np_argsort(e.vc)
    IN  Ok([M |-> M, n |-> Len(d.data),
            vals |-> [k \in 1..3 |-> e.vc[ix[k]]],
            vects |-> [k \in 1..3 |-> [i \in 1..3 |-> e.vv[i][ix[k]]]]])
Ortensor_init(d) ==
    IF d.data = <<>> THEN Raise("LinAlgError")
    ELSE LET M == np_dot_T(d.data)
             e == np_linalg_eig(M)
             ix == reversed(np_argsort(e.vc))
             vals == [k \in 1..3 |-> e.vc[ix[k]]]
         IN  Ok([M |-> M, n |-> Len(d.data),
                 vals |-> vals,
                 vects |-> [k \in 1..3 |-> [i \in 1..3 |-> e.vv[i][ix[k]]]],
                 shape |-> <<Log(vals[3], vals[2]), Log(vals[2], vals[1])>>,
                 strength |-> Log(vals[3], vals[1])])

InitOT ==
    /\ \E name \in Names : ds = Dataset_init(<<>>, name)
    /\ fs = NoSet
    /\ lhs = NoObj
    /\ rhs = NoObj
    /\ hs = NoFrame
    /\ errstate = "warn"
    /\ ret = NoCall

\* ds.append(l) with a lineation along a coordinate axis
OtAppend ==
    /\ ret.op \in {"none", "Dataset.append"}
    /\ Len(ds.data) < MaxOT
    /\ \E i \in 1..3 :
          /\ ds' = [ds EXCEPT !.data = Append(ds.data, Obj("Lin", Unit3[i]))]
          /\ ret' = Call("Dataset.append", ds, Obj("Lin", Unit3[i]), None, None)
    /\ UNCHANGED <<lhs, rhs, fs, hs, errstate>>

\* ds.ortensor
DsOrtensor ==
    /\ ret.op \in {"none", "Dataset.append"}
    /\ IsDiagonal(np_dot_T(ds.data))
    /\ LET r == Ortensor_init(ds)
       IN  ret' = Call("Dataset.ortensor", ds, NoArg, r.val, r.err)
    /\ UNCHANGED <<lhs, rhs, ds, fs, hs, errstate>>

NextOT ==
    \/ OtAppend
    \/ DsOrtensor

SpecOT == InitOT /\ [][NextOT]_vars

(***************************************************************************)
(* apsg.math: the matrices and column vectors of fixed shape.  The elements *)
(* are kept in one tuple in row order.                                     *)
(***************************************************************************)
MaxElements == 17
MatrixClasses == {"Matrix2", "Matrix3", "Matrix4"}
VectorClasses == {"Vector2", "Vector3", "Vector4"}
\* the __shape__ class attributes
Shape(cls) == CASE cls = "Matrix2" -> <<2, 2>>
                [] cls = "Matrix3" -> <<3, 3>>
                [] cls = "Matrix4" -> <<4, 4>>
                [] cls = "Vector2" -> <<2, 1>>
                [] cls = "Vector3" -> <<3, 1>>
                [] cls = "Vector4" -> <<4, 1>>
\* the class each __init__ names in its super(..., self) call
SuperArg(cls) == CASE cls = "Matrix4" -> "Matrix3"
                   [] cls = "Vector4" -> "Vector3"
                   [] OTHER -> cls
\* float(max(0, e)) if (e == 0) else float(e)
to_float(e) == IF e = 0 THEN (IF 0 >= e THEN 0 ELSE e) ELSE e
Matrix_init(cls, elements) ==
    IF Len(elements) # Shape(cls)[1] * Shape(cls)[2]
    THEN Raise("AssertionError")
    ELSE Ok([cls |-> cls,
             elements |-> [i \in 1..Len(elements) |-> to_float(elements[i])]])
\* super(type, self).__init__(*elements): self must be an instance of type
super_init(type, cls, elements) ==
    IF type # cls THEN Raise("TypeError") ELSE Matrix_init(cls, elements)
\* Matrix2, Matrix3, Matrix4
SquareMatrix_init(cls, elements) == super_init(SuperArg(cls), cls, elements)
\* Vector2, Vector3, Vector4: WrongNumberOfElements is not a name of the module
Vector_init(cls, elements) ==
    IF Len(elements) > Shape(cls)[1] * Shape(cls)[2]
    THEN Raise("NameError")
    ELSE super_init(SuperArg(cls), cls, elements)
\* self._elements[i * self.__shape__[1] + j], indices from 0
Matrix_getitem(m, i, j) == m.elements[i * Shape(m.cls)[2] + j + 1]

InitMat ==
    /\ ds = NoDataset
    /\ fs = NoSet
    /\ lhs = NoObj
    /\ rhs = NoObj
    /\ hs = NoFrame
    /\ errstate = "warn"
    /\ ret = NoCall

\* Matrix2(*elements), Matrix3(*elements), Matrix4(*elements)
NewMatrix ==
    /\ ret.op = "none"
    /\ \E cls \in MatrixClasses, n \in 0..MaxElements, k \in 0..2 :
          LET elements == [i \in 1..n |-> i - k]
              r == SquareMatrix_init(cls, elements)
          IN  ret' = Call("new", cls, elements, r.val, r.err)
    /\ UNCHANGED <<lhs, rhs, ds, fs, hs, errstate>>

\* Vector2(*elements), Vector3(*elements), Vector4(*elements)
NewVector ==
    /\ ret.op = "none"
    /\ \E cls \in VectorClasses, n \in 0..MaxElements, k \in 0..2 :
          LET elements == [i \in 1..n |-> i - k]
              r == Vector_init(cls, elements)
          IN  ret' = Call("new", cls, elements, r.val, r.err)
    /\ UNCHANGED <<lhs, rhs, ds, fs, hs, errstate>>

NextMat ==
    \/ NewMatrix
    \/ NewVector

SpecMat == InitMat /\ [][NextMat]_vars

(***************************************************************************)
(* The cache of a FeatureSet: the dictionary _cache, kept as the sequence   *)
(* of its (key, value) pairs, and the methods that read or return sets.    *)
(***************************************************************************)
InCache(cache, key) == \E i \in 1..Len(cache) : cache[i][1] = key
CacheGet(cache, key) == cache[CHOOSE i \in 1..Len(cache) : cache[i][1] = key][2]
\* OrientationTensor3.from_features(g): the sum of the outer products of the
\* elements over their number, kept as the pair of the sum and the number
OrientationTensor3_from_features(g) == [M |-> np_dot_T(g.data), n |-> Len(g.data)]

\* the property _ortensor that fills the cache at every call
Vector3Set__ortensor_uncached(self) ==
    LET T == OrientationTensor3_from_features(self)
    IN  [self |-> [self EXCEPT !.cache = <<<<"ortensor", T>>>>],
         val |-> T, computed |-> TRUE]
\* the property _ortensor: the value returned, the instance afterwards, and
\* whether from_features was called
Vector3Set__ortensor(self) ==
    IF ~InCache(self.cache, "ortensor")
    THEN LET T == OrientationTensor3_from_features(self)
         IN  [self |-> [self EXCEPT !.cache = Append(@, <<"ortensor", T>>)],
              val |-> T, computed |-> TRUE]
    ELSE [self |-> self, val |-> CacheGet(self.cache, "ortensor"),
          computed |-> FALSE]

\* self.data[a:b] for 0 <= a, b <= len
Slice(data, a, b) == SubSeq(data, a + 1, b)
\* self[key] with key a slice or an integer 0 <= key
FeatureSet_getitem(self, key) ==
    CASE key.kind = "slice" ->
           FeatureSet_init(self.cls, Slice(self.data, key.a, key.b), "Default")
      [] key.kind = "int" ->
           IF key.a < Len(self.data) THEN Ok(self.data[key.a + 1])
           ELSE Raise("IndexError")
      [] OTHER -> Raise("TypeError")

CachePool(setcls) == {Obj(feature_type(setcls), v) : v \in {<<1, 0, 0>>, <<0, 2, 0>>}}
InitCache ==
    /\ \E setcls \in {"Vector3Set", "LineationSet"}, n \in 1..MaxLen, name \in Names :
          \E data \in ListsOfLen(CachePool(setcls), n) :
              fs = FeatureSet_init(setcls, data, name).val
    /\ ds = NoDataset
    /\ lhs = NoObj
    /\ rhs = NoObj
    /\ hs = NoFrame
    /\ errstate = "warn"
    /\ ret = NoCall

\* fs.ortensor()
CcOrtensor ==
    /\ fs.data # <<>>
    /\ LET r == Vector3Set__ortensor(fs)
       IN  /\ fs' = r.self
           /\ ret' = Call("ortensor", fs, NoArg,
                          [tensor |-> r.val, computed |-> r.computed], None)
    /\ UNCHANGED <<lhs, rhs, ds, hs, errstate>>

\* fs.rotate(axis, phi)
CcRotate ==
    /\ \E axis \in Axes, phi \in {90, 180} :
          LET r == FeatureSet_rotate(fs, Feature_cast("Lineation", axis), phi)
          IN  ret' = Call("rotate", fs, <<axis, phi>>, r.val, r.err)
    /\ UNCHANGED <<lhs, rhs, ds, fs, hs, errstate>>

\* fs.normalized()
CcNormalized ==
    /\ LET r == Vector3Set_normalized(fs)
       IN  ret' = Call("normalized", fs, NoArg, r.val, r.err)
    /\ UNCHANGED <<lhs, rhs, ds, fs, hs, errstate>>

\* fs + other: other is fs itself, the set last returned, a set of another
\* class, or a feature
CcAdd ==
    /\ \E other \in {fs, FeatureSet_init("Vector3Set", <<>>, "Default").val,
                      Obj("Vector3", <<1, 0, 0>>)}
                     \cup (IF ret.err = None /\ ret.op \in {"rotate", "getitem"}
                              /\ IsFeatureSet(ret.val)
                           THEN {ret.val} ELSE {}) :
          /\ IsFeatureSet(other) => Len(fs.data) + Len(other.data) <= MaxLen
          /\ LET r == FeatureSet_add(fs, other)
             IN  ret' = Call("add", fs, other, r.val, r.err)
    /\ UNCHANGED <<lhs, rhs, ds, fs, hs, errstate>>

\* fs[key]
CcGetitem ==
    /\ \E key \in {[kind |-> "slice", a |-> a, b |-> b] :
                        a \in 0..Len(fs.data), b \in 0..Len(fs.data)}
                   \cup {[kind |-> "int", a |-> a, b |-> 0] : a \in 0..Len(fs.data)} :
          LET r == FeatureSet_getitem(fs, key)
          IN  ret' = Call("getitem", fs, key, r.val, r.err)
    /\ UNCHANGED <<lhs, rhs, ds, fs, hs, errstate>>

\* g = g.rotate(...), g = g + h, ...: the session goes on with the set that
\* was returned
CcRebind ==
    /\ ret.op \in {"rotate", "normalized", "add", "getitem"}
    /\ ret.err = None
    /\ IsFeatureSet(ret.val)
    /\ fs' = ret.val
    /\ ret' = Call("rebind", ret.recv, NoArg, ret.val, None)
    /\ UNCHANGED <<lhs, rhs, ds, hs, errstate>>

NextCache ==
    \/ CcOrtensor
    \/ CcRotate
    \/ CcNormalized
    \/ CcAdd
    \/ CcGetitem
    \/ CcRebind

SpecCache == InitCache /\ [][NextCache]_vars

(***************************************************************************)
(* to_csv of Vector3Set, PairSet and FaultSet.  An azimuth or inclination  *)
(* is a whole number of units of 10 ** -(ndigits + 1) degrees; a file is    *)
(* the sequence of its lines, a line the sequence of its fields.           *)
(***************************************************************************)
MaxRows == 2
\* apsg_conf["ndigits"]
ndigits == 3
CsvClasses == {"Vector3Set", "PairSet", "FaultSet"}
\* round(x, n) of a value x >= 0 with n + 1 decimal digits: to the nearest
\* multiple of ten units, a tie to the even one
round(x, n) ==
    LET q == x \div 10
        r == x % 10
    IN  IF r < 5 THEN 10 * q
        ELSE IF r > 5 THEN 10 * (q + 1)
        ELSE IF q % 2 = 0 THEN 10 * q ELSE 10 * (q + 1)
\* the list "fieldnames" of each to_csv
fieldnames(setcls) ==
    CASE setcls = "Vector3Set" -> <<"azi", "inc">>
      [] setcls = "PairSet" -> <<"azi", "inc", "lazi", "linc">>
      [] setcls = "FaultSet" -> <<"fazi", "finc", "lazi", "linc", "sense">>
\* the dictionary each to_csv passes to writerow, as (key, value) pairs
rowdict(setcls, dt, n) ==
    CASE setcls = "Vector3Set" ->
           << <<"azi", round(dt.geo[1], n)>>, <<"inc", round(dt.geo[2], n)>> >>
      [] setcls = "PairSet" ->
           << <<"fazi", round(dt.fol[1], n)>>, <<"finc", round(dt.fol[2], n)>>,
              <<"lazi", round(dt.lin[1], n)>>, <<"linc", round(dt.lin[2], n)>> >>
      [] setcls = "FaultSet" ->
           << <<"fazi", round(dt.fol[1], n)>>, <<"finc", round(dt.fol[2], n)>>,
              <<"lazi", round(dt.lin[1], n)>>, <<"linc", round(dt.lin[2], n)>>,
              <<"sense", dt.sense>> >>
\* csv.DictWriter.writerow with extrasaction="raise": the values in the order
\* of the field names, or ValueError for a key that is not a field name
DictWriter_writerow(fields, row) ==
    IF \E i \in 1..Len(row) : \A k \in 1..Len(fields) : fields[k] # row[i][1]
    THEN Raise("ValueError")
    ELSE Ok([k \in 1..Len(fields) |->
                IF InCache(row, fields[k]) THEN CacheGet(row, fields[k]) ELSE ""])
\* "for dt in self: writer.writerow(...)": the file when the loop ends or
\* raises
RECURSIVE WriteRows(_, _, _)
WriteRows(file, setcls, rest) ==
    IF rest = <<>> THEN [val |-> file, err |-> None]
    ELSE LET r == DictWriter_writerow(fieldnames(setcls),
                                      rowdict(setcls, Head(rest), ndigits))
         IN  IF r.err # None THEN [val |-> file, err |-> r.err]
             ELSE WriteRows(Append(file, r.val), setcls, Tail(rest))
\* writer.writeheader() and the loop
to_csv(self) == WriteRows(<<fieldnames(self.cls)>>, self.cls, self.data)

\* (azimuth, inclination) of the elements: 0, 0 and 123.4565, 45.0004
GeoPool == {<<0, 0>>, <<1234565, 450004>>}
CsvPool(setcls) ==
    CASE setcls = "Vector3Set" -> {[geo |-> g] : g \in GeoPool}
      [] setcls = "PairSet" -> {[fol |-> f, lin |-> l] : f \in GeoPool, l \in GeoPool}
      [] setcls = "FaultSet" ->
           {[fol |-> f, lin |-> l, sense |-> s] :
               f \in GeoPool, l \in GeoPool, s \in {-1, 1}}

InitCsv ==
    /\ \E setcls \in CsvClasses :
          fs = [cls |-> setcls, data |-> <<>>, name |-> "Default", cache |-> <<>>]
    /\ ds = NoDataset
    /\ lhs = NoObj
    /\ rhs = NoObj
    /\ hs = NoFrame
    /\ errstate = "warn"
    /\ ret = NoCall

\* fs = fs + type(fs)([dt])
CsvAdd ==
    /\ ret.op = "none"
    /\ Len(fs.data) < MaxRows
    /\ \E dt \in CsvPool(fs.cls) : fs' = [fs EXCEPT !.data = Append(@, dt)]
    /\ UNCHANGED <<lhs, rhs, ds, ret, hs, errstate>>

\* fs.to_csv(filename): val is the file afterwards
ToCsv ==
    /\ ret.op = "none"
    /\ LET r == to_csv(fs)
       IN  ret' = Call("to_csv", fs, "file.csv", r.val, r.err)
    /\ UNCHANGED <<lhs, rhs, ds, fs, hs, errstate>>

NextCsv ==
    \/ CsvAdd
    \/ ToCsv

SpecCsv == InitCsv /\ [][NextCsv]_vars

(***************************************************************************)
(* class SDB: the access to PySDB database files.  In this part ds is the   *)
(* world of the databases: files, the meta table of each database file (a  *)
(* sequence of rows), conn, the class attribute SDB.conn (the file the     *)
(* connection is to), and opened, the files SDB instances were created on. *)
(* An SDB instance has no attributes of its own and is named by its file.  *)
(***************************************************************************)
DbFiles == {"a.sdb", "b.sdb"}
MetaNames == {"crs", "proj4"}
MetaVals == {"v1", "v2"}
Row(name, value) == [name |-> name, value |-> value]
\* SELECT value FROM meta WHERE name=? ... fetchall()
Select(table, name) == SelectSeq(table, LAMBDA r : r.name = name)
\* INSERT INTO meta (name,value) VALUES (?,?)
Insert(table, name, val) == Append(table, Row(name, val))
\* UPDATE meta SET value = ? WHERE name = ?
Update(table, name, val) ==
    [i \in 1..Len(table) |->
        IF table[i].name = name THEN Row(name, val) ELSE table[i]]
\* DELETE FROM meta WHERE name=?
Delete(table, name) == SelectSeq(table, LAMBDA r : r.name # name)

\* SDB(db): the connection becomes an attribute of the class
SDB_new(w, db) ==
    IF db \notin DbFiles
    THEN [w |-> w, val |-> None, err |-> "AssertionError"]
    ELSE [w |-> [w EXCEPT !.conn = db, !.opened = @ \cup {db}],
          val |-> db, err |-> None]

\* meta that inserts without looking for the row
SDB_meta_insert(w, name, val, delete) ==
    LET table == w.files[w.conn]
    IN  IF delete
        THEN [w |-> [w EXCEPT !.files[w.conn] = Delete(table, name)],
              val |-> None, err |-> None]
        ELSE IF val = None
        THEN LET name2 == IF name = "crs" /\ Select(table, "crs") = <<>>
                          THEN "proj4" ELSE name
                 res == Select(table, name2)
             IN  IF res # <<>>
                 THEN [w |-> w, val |-> res[1].value, err |-> None]
                 ELSE [w |-> w, val |-> None, err |-> "ValueError"]
        ELSE [w |-> [w EXCEPT !.files[w.conn] = Insert(table, name, val)],
              val |-> None, err |-> None]
\* self.meta(name, val, delete); self.conn is SDB.conn
SDB_meta(w, name, val, delete) ==
    LET table == w.files[w.conn]
    IN  IF delete
        THEN [w |-> [w EXCEPT !.files[w.conn] = Delete(table, name)],
              val |-> None, err |-> None]
        ELSE IF val = None
        THEN LET name2 == IF name = "crs" /\ Select(table, "crs") = <<>>
                          THEN "proj4" ELSE name
                 res == Select(table, name2)
             IN  IF res # <<>>
                 THEN [w |-> w, val |-> res[1].value, err |-> None]
                 ELSE [w |-> w, val |-> None, err |-> "ValueError"]
        ELSE LET exval == Select(table, name)
             IN  IF exval = <<>>
                 THEN [w |-> [w EXCEPT !.files[w.conn] = Insert(table, name, val)],
                       val |-> None, err |-> None]
                 ELSE [w |-> [w EXCEPT !.files[w.conn] = Update(table, name, val)],
                       val |-> None, err |-> None]
\* self.execsql(sql) with sql = "SELECT name, value FROM meta"
SDB_execsql(w) == w.files[w.conn]

\* the meta tables the files come with
MetaTables == {<<>>, <<Row("proj4", "v1")>>, <<Row("crs", "v2")>>}
InitDb ==
    /\ \E ta \in MetaTables, tb \in MetaTables :
          ds = [files |-> [f \in DbFiles |-> IF f = "a.sdb" THEN ta ELSE tb],
                conn |-> None, opened |-> {}]
    /\ fs = NoSet
    /\ lhs = NoObj
    /\ rhs = NoObj
    /\ hs = NoFrame
    /\ errstate = "warn"
    /\ ret = NoCall

\* SDB(db)
SdbNew ==
    /\ \E db \in (DbFiles \ ds.opened) \cup {"missing.sdb"} :
          LET r == SDB_new(ds, db)
          IN  /\ ds' = r.w
              /\ ret' = Call("SDB", [inst |-> None, w |-> ds], db, r.val, r.err)
    /\ UNCHANGED <<lhs, rhs, fs, hs, errstate>>

\* inst.meta(name), inst.meta(name, val), inst.meta(name, delete=True)
SdbMeta ==
    /\ \E inst \in ds.opened, name \in MetaNames,
          val \in MetaVals \cup {None}, delete \in BOOLEAN :
          LET r == SDB_meta(ds, name, val, delete)
          IN  /\ ds' = r.w
              /\ ret' = Call("meta", [inst |-> inst, w |-> ds],
                             [name |-> name, val |-> val, delete |-> delete],
                             r.val, r.err)
    /\ UNCHANGED <<lhs, rhs, fs, hs, errstate>>

\* inst.execsql("SELECT name, value FROM meta")
SdbExecsql ==
    /\ \E inst \in ds.opened :
          ret' = Call("execsql", [inst |-> inst, w |-> ds],
                      "SELECT name, value FROM meta", SDB_execsql(ds), None)
    /\ UNCHANGED <<lhs, rhs, ds, fs, hs, errstate>>

NextDb ==
    \/ SdbNew
    \/ SdbMeta
    \/ SdbExecsql

SpecDb == InitDb /\ [][NextDb]_vars

(***************************************************************************)
(* Claims about the element algebra (checked under SpecAlg).               *)
(***************************************************************************)
IsNeg(u, v) == v = Neg3(u)
Parallel(u, v) == Cross3(u, v) = Zero3

\* C1: equality is sign-insensitive exactly for the axial types: for a nonzero
\* Lin, Fol or Pole a, a == a and a == -a are both true; for a nonzero Vec3 v,
\* v == v is true and v == -v is false.
C1_AxialEquality ==
    (ret.op = "eq" /\ ret.recv.v # Zero3) =>
        /\ (ret.recv.cls \in AxialClasses /\ ret.arg.v = ret.recv.v) => ret.val = TRUE
        /\ (ret.recv.cls \in AxialClasses /\ IsNeg(ret.recv.v, ret.arg.v)) => ret.val = TRUE
        /\ (ret.recv.cls = "Vec3" /\ ret.arg.v = ret.recv.v) => ret.val = TRUE
        /\ (ret.recv.cls = "Vec3" /\ IsNeg(ret.recv.v, ret.arg.v)) => ret.val = FALSE

\* C1 witness: a nonzero Pole has been compared with its negation and found equal.
C1_Witness ==
    /\ ret.op = "eq"
    /\ ret.recv.cls = "Pole"
    /\ ret.recv.v # Zero3
    /\ IsNeg(ret.recv.v, ret.arg.v)
    /\ ret.val = TRUE

\* The axial combination rule: b is negated when dot(a, b) < 0, then the
\* ordinary component-wise sum or difference is taken; += and -= leave it in a.
AxialRule ==
    (ret.op \in {"add", "sub", "iadd", "isub"} /\ ret.recv.cls \in AxialClasses) =>
        LET a == ret.recv.v
            b == IF Dot(ret.recv.v, ret.arg.v) < 0 THEN Neg3(ret.arg.v) ELSE ret.arg.v
        IN  /\ ret.val.cls = ret.recv.cls
            /\ ret.op \in {"add", "iadd"} => ret.val.v = Add3(a, b)
            /\ ret.op \in {"sub", "isub"} => ret.val.v = Sub3(a, b)
            /\ ret.op \in {"iadd", "isub"} => lhs = ret.val
            /\ ret.op \in {"add", "sub"} => lhs = ret.recv

\* a + b equals a + (-b) whenever dot(a, b) # 0
SumIgnoresSign ==
    (ret.op = "add" /\ ret.recv.cls \in AxialClasses
        /\ Dot(ret.recv.v, ret.arg.v) # 0) =>
        ret.val = py_add(ret.recv, nd_neg(ret.arg))

\* Two lineations with opposite azimuths and equal plunge: (x, y, z) and
\* (-x, -y, z), the azimuth being defined ((x, y) # (0, 0)).
OppositeAzimuths ==
    /\ ret.op = "add"
    /\ ret.recv.cls = "Lin"
    /\ ret.arg.v = <<-ret.recv.v[1], -ret.recv.v[2], ret.recv.v[3]>>
    /\ <<ret.recv.v[1], ret.recv.v[2]>> # <<0, 0>>

\* The sum is the horizontal line along the azimuth of the first operand.
SumIsHorizontal ==
    /\ ret.val.v # Zero3
    /\ ret.val.v[3] = 0
    /\ Parallel(ret.val.v, <<ret.recv.v[1], ret.recv.v[2], 0>>)

\* Plunge below 45 degrees: the horizontal part is longer than the vertical.
PlungeBelow45 ==
    ret.recv.v[1] * ret.recv.v[1] + ret.recv.v[2] * ret.recv.v[2]
        > ret.recv.v[3] * ret.recv.v[3]

C7_RotateKeepsType ==
    (ret.op = "rotate" /\ ret.recv.cls \in AxialClasses) =>
        ret.val.cls = ret.recv.cls

\* C10: the cross method and the ** operator agree and re-type the result:
\* k.cross(l) is the Fol k ** l for Lin k, l, and f.cross(g) is the Lin f ** g
\* for Fol f, g.
C10_CrossAgreesWithPow ==
    (ret.op = "cross" /\ ret.recv.cls \in {"Lin", "Fol"}) =>
        /\ ret.val = py_pow(ret.recv, ret.arg)
        /\ ret.val.cls = (IF ret.recv.cls = "Lin" THEN "Fol" ELSE "Lin")
        /\ ret.val.v = Cross3(ret.recv.v, ret.arg.v)

\* C12: getuv of a zero-length vector, and angle with a zero-length operand,
\* raise an error; neither returns a result that contains NaN.
C12_ZeroLengthRaises ==
    /\ ret.op = "getuv" =>
          /\ Vec3_abs2(ret.recv) = 0 => ret.err # None
          /\ ret.err = None => ~HasNaN(ret.val)
    /\ ret.op = "angle" =>
          /\ Vec3_abs2(ret.recv) = 0 \/ Vec3_abs2(ret.arg) = 0 => ret.err # None
          /\ ret.err = None => ~IsNaN(ret.val)

\* C13: for a foliation f and a lineation l that are not orthogonal (and not
\* parallel, so that the axis f ** l exists), fixpair(f, l) returns (f', l')
\* with the lineation l' in the plane f': the pole of f' and l' are at 90
\* degrees.
C13_FixpairMakesOrthogonal ==
    (/\ ret.op = "fixpair"
     /\ Dot(ret.recv.v, ret.arg.v) # 0
     /\ Cross3(ret.recv.v, ret.arg.v) # Zero3) =>
        /\ ret.err = None
        /\ ret.val[1].cls = "Fol"
        /\ ret.val[2].cls = "Lin"
        /\ Dot(ret.val[1].v, ret.val[2].v) = 0

\* C15: rotation is periodic and invertible: rotating by 360 degrees returns
\* the vector rotated, and rotating the result of a rotation by the opposite
\* angle about the same axis returns the vector first rotated.
C15_RotatePeriodicInvertible ==
    /\ ret.op = "rotate" /\ ret.arg[2] = 360 =>
          ret.val.v = ret.recv.v /\ py_eq(ret.val, ret.recv)
    /\ ret.op = "rotate back" =>
          ret.val.v = lhs.v /\ py_eq(ret.val, lhs)

\* a vector off the axis has been rotated by a quarter turn and back
C15_Witness ==
    /\ ret.op = "rotate back"
    /\ ret.arg[2] = -90
    /\ ~Parallel(lhs.v, rhs.v)
    /\ ret.recv.v # lhs.v

\* C16: rotation preserves the angle between features: the angle between two
\* lineations (or two foliations) rotated about one axis by one angle is the
\* angle between the two as they were.
C16_RotatePreservesAngle ==
    (/\ ret.op = "angle of rotated"
     /\ lhs.v # Zero3
     /\ rhs.v # Zero3) =>
        /\ ret.err = None
        /\ ret.val = py_angle(lhs, rhs)

\* two oblique lineations, neither along the axis, have been rotated
C16_Witness ==
    /\ ret.op = "angle of rotated"
    /\ lhs.cls = "Lin"
    /\ ~Parallel(lhs.v, rhs.v)
    /\ Dot(lhs.v, rhs.v) # 0
    /\ ~Parallel(lhs.v, ret.arg[1].v)
    /\ ~Parallel(rhs.v, ret.arg[1].v)
    /\ ret.arg[2] = 90

\* C18: the cross product is orthogonal to both operands: for two lineations
\* l1, l2 that are not parallel and p = l1 ** l2, dot(p, l1) = 0 and
\* dot(p, l2) = 0, and the angles of p to l1 and to l2 are 90 degrees.
C18_CrossOrthogonal ==
    (/\ ret.op = "pow"
     /\ ret.recv.cls = "Lin"
     /\ ~Parallel(ret.recv.v, ret.arg.v)) =>
        /\ ret.err = None
        /\ Vec3_mul(ret.val, ret.recv) = 0
        /\ Vec3_mul(ret.val, ret.arg) = 0
        /\ Is90(py_angle(ret.val, ret.recv))
        /\ Is90(py_angle(ret.val, ret.arg))

\* l1 ** l2 of two oblique lineations
C18_Witness ==
    /\ ret.op = "pow"
    /\ ret.recv.cls = "Lin"
    /\ ~Parallel(ret.recv.v, ret.arg.v)
    /\ Dot(ret.recv.v, ret.arg.v) # 0
    /\ ret.val.cls = "Fol"

\* Two angles are the same number of degrees: neither is NaN, their cosines
\* d/sqrt(na*nb) have one sign and equal squares.
SameAngle(x, y) ==
    /\ ~IsNaN(x)
    /\ ~IsNaN(y)
    /\ Sgn(x.v[1]) = Sgn(y.v[1])
    /\ x.v[1] * x.v[1] * y.v[2] * y.v[3] = y.v[1] * y.v[1] * x.v[2] * x.v[3]
\* 0 <= ang <= 90: the cosine is between 0 and 1
In0to90(ang) ==
    /\ LE90(ang)
    /\ ang.v[1] * ang.v[1] <= ang.v[2] * ang.v[3]

\* C19: the angle between two axial features is undirected: for nonzero Lin
\* or Fol a and b, a.angle(b) is in [0, 90] and a.angle(b), a.angle(-b) and
\* b.angle(a) are equal.
C19_AxialAngleUndirected ==
    (/\ ret.op = "angle"
     /\ ret.recv.cls \in AxialClasses
     /\ ret.recv.v # Zero3
     /\ ret.arg.v # Zero3) =>
        /\ ret.err = None
        /\ In0to90(ret.val)
        /\ SameAngle(ret.val, py_angle(ret.recv, nd_neg(ret.arg)))
        /\ SameAngle(ret.val, py_angle(ret.arg, ret.recv))

\* the angle of two lineations that point more than 90 degrees apart
C19_Witness ==
    /\ ret.op = "angle"
    /\ ret.recv.cls = "Lin"
    /\ Dot(ret.recv.v, ret.arg.v) < 0
    /\ ~Parallel(ret.recv.v, ret.arg.v)
    /\ Norm2(ret.recv.v) # Norm2(ret.arg.v)
    /\ In0to90(ret.val)

\* C23: comparing a vector with None returns False for == and True for !=,
\* and raises nothing.
C23_EqNoneIsFalse ==
    ret.op = "eq None" =>
        /\ ret.val[1].err = None
        /\ ret.val[1].val = FALSE
        /\ ret.val[2].err = None
        /\ ret.val[2].val = TRUE

\* C28: for lineations (or foliations) a and b, a + b and b + a are equal
\* under axial equality: their components are equal or negations of each
\* other.
C28_AxialAddCommutes ==
    (/\ ret.op = "add"
     /\ ret.recv.cls \in {"Lin", "Fol"}
     /\ ret.arg.cls = ret.recv.cls) =>
        LET ab == ret.val
            ba == py_add(ret.arg, ret.recv)
        IN  /\ ab.v = ba.v \/ ab.v = Neg3(ba.v)
            /\ py_eq(ab, ba)

\* a + b for lineations at more than 90 degrees: b + a is the negation
C28_Witness ==
    /\ ret.op = "add"
    /\ ret.recv.cls = "Lin"
    /\ ret.arg.cls = "Lin"
    /\ Vec3_mul(ret.recv, ret.arg) < 0
    /\ ret.val.v # py_add(ret.arg, ret.recv).v
    /\ ret.val.v = Neg3(py_add(ret.arg, ret.recv).v)

(***************************************************************************)
(* Claims about the collections (checked under Spec).  ret is the last     *)
(* call: its receiver as it was before the call, its argument, and the     *)
(* value returned or the exception raised.                                 *)
(***************************************************************************)
Resultants == {"Dataset.resultant", "Dataset.rdegree", "Vector3Set.R", "Vector3Set.rdegree"}
\* what the call reported by ret returns when it is made once more
Again ==
    CASE ret.op = "Dataset.resultant" -> Dataset_resultant(ds)
      [] ret.op = "Dataset.rdegree" -> Dataset_rdegree(ds)
      [] ret.op = "Vector3Set.R" -> Ok(Vector3Set_R(fs))
      [] ret.op = "Vector3Set.rdegree" -> Vector3Set_rdegree(fs)

\* C3: resultant, R() and rdegree leave every element of the set with the
\* components it had before the call, and the call made again returns the
\* same value.
C3_ResultantNoSideEffect ==
    ret.op \in Resultants /\ ret.err = None =>
        /\ ret.op \in {"Dataset.resultant", "Dataset.rdegree"} => ds.data = ret.recv.data
        /\ ret.op \in {"Vector3Set.R", "Vector3Set.rdegree"} => fs.data = ret.recv.data
        /\ Again = Ok(ret.val)

\* the feature type of the set a constructor call is to build
ConstructedType ==
    IF ret.op = "FeatureSet" THEN feature_type(ret.recv.cls)
    ELSE IF ret.arg = <<>> THEN "None"
    ELSE ret.arg[1].cls

\* C5: constructing a feature set from elements that are not all instances
\* of its feature type raises and yields no set; a construction that succeeds
\* stores as many elements as were given, each an instance of the feature
\* type, with the components of the element given at its position.
C5_HomogeneousConstruction ==
    ret.op \in {"FeatureSet", "G"} =>
        /\ (\E i \in 1..Len(ret.arg) : ~Feature_isinstance(ret.arg[i], ConstructedType))
              => ret.err # None
        /\ ret.err # None => fs = NoSet /\ ret.val = None
        /\ ret.err = None =>
              /\ fs = ret.val
              /\ ret.op = "FeatureSet" => fs.cls = ret.recv.cls
              /\ Len(fs.data) = Len(ret.arg)
              /\ \A i \in 1..Len(fs.data) :
                    /\ Feature_isinstance(fs.data[i], feature_type(fs.cls))
                    /\ fs.data[i].v = ret.arg[i].v

\* a LineationSet was refused two elements, one of them not a Lineation
C5_Witness ==
    /\ ret.op = "FeatureSet"
    /\ ret.recv.cls = "LineationSet"
    /\ Len(ret.arg) = 2
    /\ ret.arg[1].cls = "Lineation"
    /\ ret.arg[2].cls = "Foliation"
    /\ ret.err = "AssertionError"
    /\ fs = NoSet

\* rotate returns as many elements as the receiver has, the i-th the rotation
\* of the receiver's i-th, and leaves the receiver as it was
RotatesElementwise ==
    ret.op \in {"Dataset.rotate", "FeatureSet.rotate"} =>
        /\ ret.err = None
        /\ Len(ret.val.data) = Len(ret.recv.data)
        /\ \A i \in 1..Len(ret.recv.data) :
              ret.val.data[i] =
                 IF ret.op = "Dataset.rotate"
                 THEN py_rotate(ret.recv.data[i], ret.arg[1], ret.arg[2])
                 ELSE Feature_rotate(ret.recv.data[i],
                                     Feature_cast("Lineation", ret.arg[1]), ret.arg[2])
        /\ ret.op = "Dataset.rotate" => ds = ret.recv
        /\ ret.op = "FeatureSet.rotate" => fs = ret.recv /\ ret.val.cls = ret.recv.cls

\* C6 as stated: rotate on a set returns a new set of the same length whose
\* i-th element is the rotation of the receiver's i-th element and whose name
\* is the receiver's name; the receiver is unchanged.
C6_RotateKeepsName ==
    /\ RotatesElementwise
    /\ ret.op \in {"Dataset.rotate", "FeatureSet.rotate"} => ret.val.name = ret.recv.name

\* C6 amended: rotate on a set returns a new set of the same length whose
\* i-th element is the rotation of the receiver's i-th element; the result of
\* a FeatureSet has the receiver's name, the result of a Dataset the
\* receiver's name prefixed with "R-"; the receiver is unchanged.
C6_RotateNames ==
    /\ RotatesElementwise
    /\ ret.op = "FeatureSet.rotate" => ret.val.name = ret.recv.name
    /\ ret.op = "Dataset.rotate" => ret.val.name = "R-" \o ret.recv.name

\* a Dataset named apsg of two features was rotated by 90 degrees
C6_Witness ==
    /\ ret.op = "Dataset.rotate"
    /\ ret.recv.name = "apsg"
    /\ Len(ret.recv.data) = 2
    /\ ret.arg[2] = 90
    /\ ret.val.data # ret.recv.data
    /\ ret.val.name = "R-apsg"

\* element e combined with element f by the call reported by ret
Combined(e, f) ==
    CASE ret.op = "Vector3Set.cross" -> Feature_cross(e, f)
      [] ret.op = "Vector3Set.angle" -> Feature_angle(e, f)
      [] ret.op = "Dataset.cross" -> py_pow(e, f)
      [] ret.op = "Dataset.angle" -> py_angle(e, f)
\* the results of the call reported by ret, as a sequence
Results == IF ret.op \in {"Vector3Set.angle", "Dataset.angle"} THEN ret.val ELSE ret.val.data
\* position of the pair (i, j), i < j, among the pairs of 1..n in lexicographic order
PairIndex(i, j, n) == (i - 1) * n - ((i - 1) * i) \div 2 + (j - i)

\* C8: cross() and angle() without an argument on a set of N elements return
\* N(N-1)/2 results, the one at the position of (i, j) in lexicographic order
\* being element i combined with element j; for N < 2 the result is empty,
\* not an error.
C8_PairwiseWithoutArgument ==
    ret.op \in {"Vector3Set.cross", "Vector3Set.angle", "Dataset.cross"} /\ ret.arg = NoArg =>
        /\ ret.err = None
        /\ LET n == Len(ret.recv.data)
           IN  /\ Len(Results) = (n * (n - 1)) \div 2
               /\ \A i \in 1..n, j \in 1..n :
                     i < j => Results[PairIndex(i, j, n)]
                                 = Combined(ret.recv.data[i], ret.recv.data[j])

\* the argument is a set; the argument is a single vector
IsSetArg(x) == "data" \in DOMAIN x
IsVectorArg(x) == "v" \in DOMAIN x /\ x.cls # "int"

\* C9: cross(other) and angle(other) with a set of the receiver's length N
\* return N results, the k-th being element k of the receiver combined with
\* element k of the argument; with a single vector they return N results, the
\* k-th being element k combined with that vector.
C9_ElementwiseWithArgument ==
    ret.op \in {"Vector3Set.cross", "Vector3Set.angle", "Dataset.cross", "Dataset.angle"} =>
        LET n == Len(ret.recv.data)
        IN  /\ IsSetArg(ret.arg) /\ Len(ret.arg.data) = n =>
                  /\ ret.err = None
                  /\ Len(Results) = n
                  /\ \A k \in 1..n :
                        Results[k] = Combined(ret.recv.data[k], ret.arg.data[k])
            /\ IsVectorArg(ret.arg) =>
                  /\ ret.err = None
                  /\ Len(Results) = n
                  /\ \A k \in 1..n : Results[k] = Combined(ret.recv.data[k], ret.arg)

\* The receiver of the last call holds N >= 1 copies of one unit vector.
IdenticalUnitVectors(set) ==
    /\ Len(set.data) >= 1
    /\ \A i \in 1..Len(set.data) :
          set.data[i].v = set.data[1].v /\ Norm2(set.data[i].v) = 1
\* abs(self.normalized().R()) squared
ResultantLength2(set) == Norm2(Vector3Set_R(Vector3Set_normalized(set).val).v)

\* C11: for a set of N >= 1 identical unit vectors the resultant length of the
\* normalized elements is N and fisher_statistics returns k = inf, a95 = 0,
\* csd = 0 without dividing by N - R; k, csd and a95 are computed from N and R
\* exactly when N differs from R.
C11_FisherOfIdenticalVectors ==
    ret.op = "Vector3Set.fisher_statistics" =>
        LET N == Len(ret.recv.data)
            R2 == ResultantLength2(ret.recv)
        IN  /\ IdenticalUnitVectors(ret.recv) =>
                  /\ R2 = N * N
                  /\ ret.err = None
                  /\ ret.val = FisherDefaults
            /\ ret.err = None =>
                  /\ N * N = R2 <=> ret.val = FisherDefaults
                  /\ N * N # R2 <=>
                        /\ ret.val.k = Stat("(N-1)/(N-R)", N, R2)
                        /\ ret.val.csd = Stat("81/sqrt(k)", N, R2)
                        /\ ret.val.a95[1] \in {"nan", "acosd(1-((N-R)/R)*(20**(1/(N-1))-1))"}
            /\ ret.err # None => N * N # R2

\* fisher_statistics has answered for two copies of one unit vector
C11_Witness ==
    /\ ret.op = "Vector3Set.fisher_statistics"
    /\ Len(ret.recv.data) = 2
    /\ IdenticalUnitVectors(ret.recv)
    /\ ret.val = FisherDefaults

\* C17: rdegree is invariant under rotation: the rdegree of a rotated set of
\* features is the rdegree of the set.
C17_RDegreeRotationInvariant ==
    (/\ ret.op \in {"Dataset.rotate.rdegree", "FeatureSet.rotate.rdegree"}
     /\ ret.recv.data # <<>>) =>
        /\ ret.err = None
        /\ ret.val[1] = ret.val[2]

\* a Dataset of two lineations that are not parallel has been turned by 90
\* degrees about an axis neither is along
C17_Witness ==
    /\ ret.op = "Dataset.rotate.rdegree"
    /\ Len(ret.recv.data) = 2
    /\ \A i \in 1..2 : ret.recv.data[i].cls = "Lin"
    /\ ~Parallel(ret.recv.data[1].v, ret.recv.data[2].v)
    /\ ret.arg[2] = 90
    /\ ~Parallel(ret.recv.data[2].v, ret.arg[1].v)

(***************************************************************************)
(* Claims about halfspace (checked under SpecHalf).                        *)
(***************************************************************************)
\* every element of the set is within 90 degrees of the set's resultant
Within90OfResultant(set) ==
    LET a == Vector3Set_angle(set, Vector3Set_R(set))
    IN  a.err = None /\ AllLE90(a.val)

\* C4: halfspace() on a non-empty set of nonzero vectors, sets with a zero
\* resultant included, terminates and returns a set in which every element
\* is within 90 degrees of the returned set's resultant.
C4_HalfspaceTerminates ==
    (fs.data # <<>> /\ hs.pc # "none")
        ~> (hs.pc = "returned" /\ Within90OfResultant(hs.result))

\* the set halfspace returned differs from its receiver in signs only
SignsOnly(self, result) ==
    /\ Len(result.data) = Len(self.data)
    /\ result.cls = self.cls
    /\ result.name = self.name
    /\ \A i \in 1..Len(self.data) :
          /\ result.data[i].cls = self.data[i].cls
          /\ \/ result.data[i].v = self.data[i].v
             \/ result.data[i].v = Neg3(self.data[i].v)

\* C27: the set halfspace() returns has the length, order, feature type and
\* name of the receiver, its i-th element is the receiver's i-th element or
\* the negation of it, and the call leaves the receiver as it was.
C27_HalfspaceChangesSignsOnly ==
    /\ [](hs.pc = "returned" => SignsOnly(fs, hs.result))
    /\ [][hs'.pc # "none" => fs' = fs]_vars

\* halfspace has returned a set in which it flipped an element
C27_Witness ==
    /\ hs.pc = "returned"
    /\ fs.name = "apsg"
    /\ Len(fs.data) = MaxLen
    /\ \E i \in 1..Len(fs.data) : hs.result.data[i].v = Neg3(fs.data[i].v)

(***************************************************************************)
(* Claims about azimuth and inclination (checked under SpecDD).  After dd, *)
(* ret.recv is the feature and ret.arg the (azi, inc) it was built with.   *)
(***************************************************************************)
BuiltIn0to360 == ret.arg[1] >= 0 /\ ret.arg[1] < 360
\* what dd is to return: (azi, inc), for a Lin plunging upward the equivalent
\* in the lower hemisphere
Expected ==
    IF ret.recv.cls = "Lin" /\ ret.arg[2] < 0
    THEN <<(ret.arg[1] + 180) % 360, -ret.arg[2]>>
    ELSE ret.arg
InRange == ret.val[1] >= 0 /\ ret.val[1] < 360 /\ ret.val[2] >= 0 /\ ret.val[2] <= 90
ValidInclination ==
    IF ret.recv.cls = "Lin" THEN ret.arg[2] >= -90 /\ ret.arg[2] <= 90
    ELSE ret.arg[2] >= 0 /\ ret.arg[2] <= 90

UnitVectors(data) == \A k \in 1..Len(data) : Norm2(data[k].v) = 1
\* M times v
MatVec(M, v) == [i \in 1..3 |-> M[i][1] * v[1] + M[i][2] * v[2] + M[i][3] * v[3]]

\* C21: for n >= 1 unit vectors the eigenvalues of the orientation tensor are
\* stored in descending order, the eigenvectors in the same order (vects[k] is
\* an eigenvector of vals[k]), and the eigenvalues divided by n sum to 1.
C21_EigenvaluesDescending ==
    (/\ ret.op = "Dataset.ortensor"
     /\ Len(ret.recv.data) >= 1
     /\ UnitVectors(ret.recv.data)) =>
        /\ ret.err = None
        /\ ret.val.vals[1] >= ret.val.vals[2]
        /\ ret.val.vals[2] >= ret.val.vals[3]
        /\ \A k \in 1..3 :
              /\ Norm2(ret.val.vects[k]) = 1
              /\ MatVec(ret.val.M, ret.val.vects[k])
                    = Scale3(ret.val.vals[k], ret.val.vects[k])
        /\ ret.val.vals[1] + ret.val.vals[2] + ret.val.vals[3] = ret.val.n

\* the tensor of a Dataset whose first axis is the rarest and third the most
\* frequent: the order of the eigenvalues is not the order of the axes
C21_Witness ==
    /\ ret.op = "Dataset.ortensor"
    /\ ret.err = None
    /\ ret.val.M[1][1] < ret.val.M[2][2]
    /\ ret.val.M[2][2] < ret.val.M[3][3]
    /\ ret.val.vects[1] = Unit3[3]


\* ln(a / b) = ln(c / d) for positive a, b, c, d
LogEq(x, y) == x.a * y.b = y.a * x.b
LogNonNegative(x) == x.a >= x.b
LogZero(x) == x.a = x.b

\* C22: the Woodcock strength of an orientation tensor with eigenvalues
\* e1 >= e2 >= e3 > 0 equals ln(e1 / e3); it is non-negative, and zero exactly
\* when e1 = e3.
C22_StrengthIsLogE1OverE3 ==
    (/\ ret.op = "Dataset.ortensor"
     /\ ret.err = None
     /\ ret.val.vals[3] > 0) =>
        /\ LogEq(ret.val.strength, Log(ret.val.vals[1], ret.val.vals[3]))
        /\ LogNonNegative(ret.val.strength)
        /\ LogZero(ret.val.strength) <=> ret.val.vals[1] = ret.val.vals[3]

(***************************************************************************)
(* Claims about the matrices and vectors of fixed shape (checked under      *)
(* SpecMat).                                                               *)
(***************************************************************************)
\* C24: for each of Matrix2, Matrix3, Matrix4, Vector2, Vector3, Vector4 the
\* construction with a number of elements other than rows * columns fails,
\* and the construction with rows * columns elements succeeds and keeps the
\* elements in row order.
C24_ConstructionChecksElementCount ==
    ret.op = "new" =>
        LET rows == Shape(ret.recv)[1]
            cols == Shape(ret.recv)[2]
        IN  IF Len(ret.arg) # rows * cols
            THEN ret.err # None
            ELSE /\ ret.err = None
                 /\ \A i \in 0..(rows - 1) : \A j \in 0..(cols - 1) :
                       Matrix_getitem(ret.val, i, j) = ret.arg[i * cols + j + 1]

(***************************************************************************)
(* Claims about the cache of a FeatureSet (checked under SpecCache).        *)
(***************************************************************************)
ReturnsSet ==
    /\ ret'.op \in {"rotate", "normalized", "add", "getitem"}
    /\ ret'.err = None
    /\ IsFeatureSet(ret'.val)
\* a cached tensor is the tensor of the data
CacheCoherent(g) ==
    InCache(g.cache, "ortensor") =>
        CacheGet(g.cache, "ortensor") = OrientationTensor3_from_features(g)
\* one call: ortensor computes only into an empty cache and returns the
\* tensor of the data; an operation that returns a set returns one with an
\* empty cache and leaves the receiver as it was
CacheStep ==
    /\ ret'.op = "ortensor" =>
          /\ ret'.val.computed => ~InCache(fs.cache, "ortensor")
          /\ InCache(fs'.cache, "ortensor")
          /\ ret'.val.tensor = OrientationTensor3_from_features(fs')
          /\ fs'.data = fs.data /\ fs'.name = fs.name
    /\ ReturnsSet => (ret'.val.cache = <<>> /\ fs' = fs)
    /\ InCache(fs.cache, "ortensor") /\ ret'.op # "rebind" =>
          InCache(fs'.cache, "ortensor")

DeclaredHeader(setcls) ==
    CASE setcls = "Vector3Set" -> <<"azi", "inc">>
      [] setcls = "PairSet" -> <<"azi", "inc", "lazi", "linc">>
      [] setcls = "FaultSet" -> <<"azi", "inc", "lazi", "linc", "sense">>
Keys(row) == [i \in 1..Len(row) |-> row[i][1]]
Values(row) == [i \in 1..Len(row) |-> row[i][2]]

\* C26: to_csv on a non-empty Vector3Set, PairSet or FaultSet succeeds and
\* writes the header and one row per element in the order of the set, the
\* keys of every row being the fields of the header in order (azimuth,
\* inclination, then line azimuth and line inclination, then sense), the
\* values rounded.
C26_ToCsvWritesEveryRow ==
    (ret.op = "to_csv" /\ ret.recv.data # <<>>) =>
        /\ ret.err = None
        /\ Len(ret.val) = 1 + Len(ret.recv.data)
        /\ Len(ret.val[1]) = Len(DeclaredHeader(ret.recv.cls))
        /\ \A k \in 1..Len(ret.recv.data) :
              LET row == rowdict(ret.recv.cls, ret.recv.data[k], ndigits)
              IN  /\ Keys(row) = ret.val[1]
                  /\ Values(row) = ret.val[k + 1]

(***************************************************************************)
(* Claims about SDB (checked under SpecDb).  After a call ret.recv holds    *)
(* the instance and the world before the call, ds the world after it.      *)
(***************************************************************************)
\* meta(name) in the present world
MetaNow(name) == SDB_meta(ds, name, None, FALSE)
RowsNow(name) == Len(Select(ds.files[ds.conn], name))
WasSet == ret.op = "meta" /\ ~ret.arg.delete /\ ret.arg.val # None
WasDeleted == ret.op = "meta" /\ ret.arg.delete
\* no row of the name, a name never set included
Absent(name) == ret.op = "meta" /\ RowsNow(name) = 0
\* the old files: 'crs' is kept under 'proj4'
FallsBack(name) == name = "crs" /\ RowsNow("crs") = 0 /\ RowsNow("proj4") > 0
AfterSet ==
    WasSet => /\ MetaNow(ret.arg.name).err = None
              /\ MetaNow(ret.arg.name).val = ret.arg.val
              /\ RowsNow(ret.arg.name) = 1

\* C29 as stated: after meta(name, val), meta(name) returns val and the table
\* holds one row for name; after meta(name, delete=True), meta(name) raises
\* ValueError; meta(name) for a name without a row raises ValueError, but
\* meta('crs') returns the value of 'proj4' when there is no 'crs' row.
C29_MetaKeyValue_Original ==
    /\ AfterSet
    /\ WasDeleted => MetaNow(ret.arg.name).err = "ValueError"
    /\ \A name \in MetaNames :
          Absent(name) =>
              IF FallsBack(name)
              THEN MetaNow(name).val = MetaNow("proj4").val
              ELSE MetaNow(name).err = "ValueError"

\* C29: the same, the value of 'proj4' being returned for 'crs' after
\* meta('crs', delete=True) as well.
C29_MetaKeyValue ==
    /\ AfterSet
    /\ WasDeleted => RowsNow(ret.arg.name) = 0
    /\ \A name \in MetaNames :
          Absent(name) =>
              IF FallsBack(name)
              THEN /\ MetaNow(name).err = None
                   /\ MetaNow(name).val = MetaNow("proj4").val
              ELSE MetaNow(name).err = "ValueError"

\* a value set for a name that had a row with another value
C29_Witness ==
    /\ WasSet
    /\ Select(ret.recv.w.files[ret.recv.w.conn], ret.arg.name) # <<>>
    /\ Select(ret.recv.w.files[ret.recv.w.conn], ret.arg.name)[1].value # ret.arg.val
    /\ Len(ds.files[ds.conn]) = 2

\* C30: an SDB instance queries the database file it was opened with, also
\* after a second SDB was created on another file.
C30_InstanceKeepsItsConnection ==
    ret.op = "execsql" => ret.val = ret.recv.w.files[ret.recv.inst]

====================================================================
